---- MODULE Spec2Model ----
(***************************************************************************)
(* A model of the WebAssembly (MVP) binary codec of the TypeScript wasm    *)
(* transformer: the numeric predicates and enumerations of binary.ts, the  *)
(* Encoder of encoder.ts and the Decoder of the unit test harness.         *)
(*                                                                         *)
(* Representation of values.                                               *)
(*   - A JavaScript number that reaches the codec through its interface    *)
(*     (a value to encode, a decoded value, a field of a section entry) is *)
(*     a Num: the record [hi, lo] that stands for the integer              *)
(*     hi * 2^16 + lo with lo in 0..65535.  TLC's integers are 32 bits     *)
(*     wide, so a uint32 at or above 2^31, or an out-of-range value such   *)
(*     as 2^32, cannot be a TLC integer; as a Num it can.                  *)
(*   - The result of a JavaScript bitwise operator (|, &, <<, >>) is an    *)
(*     int32; it is a TLC integer.                                         *)
(*   - The elements of a byte array (number[]) and the code units of a     *)
(*     string are TLC integers.                                            *)
(*   - A thrown Debug.assert / Debug.fail is the flag ok = FALSE of the    *)
(*     object whose method threw; an operation applied to an object whose  *)
(*     flag is FALSE does nothing (the exception is propagating).          *)
(***************************************************************************)
EXTENDS Integers, Sequences, FiniteSets, TLC

(***************************************************************************)
(* JavaScript numbers and 32-bit operators                                 *)
(***************************************************************************)

\* The Num of the TLC integer i.
N(i) == [hi |-> i \div 65536, lo |-> i % 65536]

\* n + i, for a Num n and a TLC integer i of small magnitude.
NumAdd(n, i) ==
    LET s == n.lo + i
    IN  [hi |-> n.hi + (s \div 65536), lo |-> s % 65536]

\* a <= b on Nums.
NumLe(a, b) == a.hi < b.hi \/ (a.hi = b.hi /\ a.lo <= b.lo)

\* a < b on Nums.
NumLt(a, b) == a.hi < b.hi \/ (a.hi = b.hi /\ a.lo < b.lo)

MinInt32 == -2147483647 - 1

\* ECMAScript ToInt32: the number modulo 2^32, read as a signed 32-bit integer.
ToInt32(n) == ((((n.hi + 32768) % 65536) - 32768) * 65536) + n.lo

\* ECMAScript ToUint32 (x >>> 0): the number modulo 2^32, as a Num.
ToUint32(n) == [hi |-> n.hi % 65536, lo |-> n.lo]

\* The TLC integer of a Num, clamped to the int32 range (used only for loop
\* counters, which no buffer is long enough to exhaust beyond that range).
Clamp(n) ==
    IF n.hi > 32767 THEN 2147483647
    ELSE IF n.hi < -32768 THEN MinInt32
    ELSE (n.hi * 65536) + n.lo

\* The low 31 bits of an int32 and its sign bit.
Low31(x) == IF x < 0 THEN (x + 2147483647) + 1 ELSE x
SignBit(x) == IF x < 0 THEN 1 ELSE 0
FromBits(sign, low) == IF sign = 1 THEN (low - 2147483647) - 1 ELSE low

RECURSIVE AndNat(_, _)
AndNat(a, b) ==
    IF a = 0 \/ b = 0 THEN 0
    ELSE ((a % 2) * (b % 2)) + (2 * AndNat(a \div 2, b \div 2))

RECURSIVE OrNat(_, _)
OrNat(a, b) ==
    IF a = 0 THEN b
    ELSE IF b = 0 THEN a
    ELSE (IF (a % 2) + (b % 2) > 0 THEN 1 ELSE 0) + (2 * OrNat(a \div 2, b \div 2))

\* x & y and x | y on int32 operands.
BitAnd(x, y) == FromBits(SignBit(x) * SignBit(y), AndNat(Low31(x), Low31(y)))
BitOr(x, y) ==
    FromBits(IF SignBit(x) + SignBit(y) > 0 THEN 1 ELSE 0, OrNat(Low31(x), Low31(y)))

Pow2(k) == 2 ^ k

\* x << s on an int32 x: the shift count is taken modulo 32 and the result is
\* truncated to 32 bits.
Shl(x, s) ==
    LET k == s % 32
        u == Low31(x)
    IN  IF k = 0 THEN x
        ELSE FromBits((u \div Pow2(31 - k)) % 2, (u % Pow2(31 - k)) * Pow2(k))

\* x >> s (sign-propagating) on an int32 x, 0 < s < 32.
Sar(x, s) == x \div Pow2(s)

\* n >>> s (zero-fill) on a number n, 0 < s < 32: the result is below 2^31.
Shr(n, s) ==
    LET u == ToUint32(n)
    IN  IF s >= 16 THEN u.hi \div Pow2(s - 16)
        ELSE (u.hi * Pow2(16 - s)) + (u.lo \div Pow2(s))

(***************************************************************************)
(* binary.ts: range predicates                                             *)
(***************************************************************************)

is_uint1(value) == N(BitAnd(ToInt32(value), 1)) = value

is_uint7(value) == N(BitAnd(ToInt32(value), 127)) = value

is_int7(value) ==
    /\ N(ToInt32(value)) = value
    /\ NumLe(N(-64), value)
    /\ NumLe(value, N(63))

is_int8(value) ==
    /\ N(ToInt32(value)) = value
    /\ NumLe(N(-128), value)
    /\ NumLe(value, N(127))

is_uint8(value) == N(BitAnd(ToInt32(value), 255)) = value

is_int32(value) == N(ToInt32(value)) = value

\* is_uint32 written with the signed idiom, (value | 0) === value.
is_uint32_signed_idiom(value) == N(ToInt32(value)) = value

is_uint32(value) == ToUint32(value) = value

assert_is_uint1(value) == is_uint1(value)
assert_is_uint7(value) == is_uint7(value)
assert_is_int7(value) == is_int7(value)
assert_is_uint8(value) == is_uint8(value)
assert_is_int32(value) == is_int32(value)
assert_is_uint32(value) == is_uint32(value)

(***************************************************************************)
(* binary.ts: enumerations                                                 *)
(***************************************************************************)

type_i32 == -1
type_i64 == -2
type_f32 == -3
type_f64 == -4
type_anyfunc == -16
type_func == -32
type_emptyBlock == -64

\* value_type.f64 <= value && value <= value_type.i32
is_value_type(value) == NumLe(N(type_f64), value) /\ NumLe(value, N(type_i32))

is_type(value) ==
    \/ value = N(type_anyfunc)
    \/ value = N(type_func)
    \/ value = N(type_emptyBlock)
    \/ is_value_type(value)

external_kind_Function == 0
external_kind_Table == 1
external_kind_Memory == 2
external_kind_Global == 3

is_external_kind(value) ==
    NumLe(N(external_kind_Function), value) /\ NumLe(value, N(external_kind_Global))

section_code_Custom == 0
section_code_Type == 1
section_code_Function == 3
section_code_Export == 7
section_code_Code == 10
section_code_Data == 11

is_section_code(value) ==
    NumLe(N(section_code_Custom), value) /\ NumLe(value, N(section_code_Data))

opcode_end == 11
opcode_return == 15
opcode_f64_const == 68

\* The opcodes of the MVP table (enum opcode): opcode[value] !== undefined.
OpcodeValues ==
    (0 .. 5) \cup (11 .. 17) \cup {26, 27} \cup (32 .. 36) \cup (40 .. 191)

is_opcode(op) == \E v \in OpcodeValues : N(v) = op

(***************************************************************************)
(* encoder.ts: class Encoder.  An Encoder is [buffer, gen, ok]: the bytes  *)
(* of the array its _buffer field refers to, the number of times the field *)
(* was set to a new array (Array.prototype.concat returns a new array,     *)
(* push extends the array in place), and whether no method has thrown.     *)
(***************************************************************************)

NewEncoder == [buffer |-> <<>>, gen |-> 0, ok |-> TRUE]

Throw(o) == [o EXCEPT !.ok = FALSE]

\* Encoder.uint8 appending with concat, as Encoder.bytes does, instead of push.
Encoder_uint8_concat(e, u8) ==
    IF ~e.ok THEN e
    ELSE IF ~assert_is_uint8(u8) THEN Throw(e)
    ELSE [e EXCEPT !.buffer = Append(@, u8.lo), !.gen = @ + 1]

Encoder_uint8(e, u8) ==
    IF ~e.ok THEN e
    ELSE IF ~assert_is_uint8(u8) THEN Throw(e)
    ELSE [e EXCEPT !.buffer = Append(@, u8.lo)]

\* bytes.forEach(assert_is_uint8); this._buffer = this._buffer.concat(bytes)
Encoder_bytes(e, bytes) ==
    IF ~e.ok THEN e
    ELSE IF \E i \in 1 .. Len(bytes) : ~assert_is_uint8(N(bytes[i])) THEN Throw(e)
    ELSE [e EXCEPT !.buffer = @ \o bytes, !.gen = @ + 1]

Encoder_uint32(e, u32) ==
    IF ~e.ok THEN e
    ELSE IF ~assert_is_uint32(u32) THEN Throw(e)
    ELSE LET e1 == Encoder_uint8(e, N(BitAnd(ToInt32(u32), 255)))
             e2 == Encoder_uint8(e1, N(BitAnd(Shr(u32, 8), 255)))
             e3 == Encoder_uint8(e2, N(BitAnd(Shr(u32, 16), 255)))
         IN  Encoder_uint8(e3, N(BitAnd(Shr(u32, 24), 255)))

\* for (; u32 >= 0x80; u32 >>>= 7) uint8(0x80 | (u32 & 0x7F));  uint8(u32)
RECURSIVE varuint32_loop(_, _)
varuint32_loop(e, u32) ==
    IF ~e.ok THEN e
    ELSE IF NumLe(N(128), u32)
         THEN varuint32_loop(
                  Encoder_uint8(e, N(BitOr(128, BitAnd(ToInt32(u32), 127)))),
                  N(Shr(u32, 7)))
         ELSE Encoder_uint8(e, u32)

Encoder_varuint32(e, u32) ==
    IF ~e.ok THEN e
    ELSE IF ~assert_is_uint32(u32) THEN Throw(e)
    ELSE varuint32_loop(e, u32)

Encoder_varuint7(e, u7) ==
    IF ~e.ok THEN e
    ELSE IF ~assert_is_uint7(u7) THEN Throw(e)
    ELSE Encoder_uint8(e, u7)

Encoder_varuint1(e, u1) ==
    IF ~e.ok THEN e
    ELSE IF ~assert_is_uint1(u1) THEN Throw(e)
    ELSE Encoder_uint8(e, u1)

\* The loop of Encoder.varint32 going on while s32 is outside [-0x80, 0x7F].
RECURSIVE varint32_loop_int8(_, _)
varint32_loop_int8(e, s32) ==
    IF ~e.ok THEN e
    ELSE IF NumLt(s32, N(-128)) \/ NumLt(N(127), s32)
         THEN varint32_loop_int8(
                  Encoder_uint8(e, N(BitOr(128, BitAnd(ToInt32(s32), 127)))),
                  N(Sar(ToInt32(s32), 7)))
         ELSE Encoder_uint8(e, N(BitAnd(ToInt32(s32), 127)))

\* for (; s32 < -0x40 || s32 > 0x3F; s32 >>= 7) uint8(0x80 | (s32 & 0x7F));
\* uint8(s32 & 0x7F)
RECURSIVE varint32_loop(_, _)
varint32_loop(e, s32) ==
    IF ~e.ok THEN e
    ELSE IF NumLt(s32, N(-64)) \/ NumLt(N(63), s32)
         THEN varint32_loop(
                  Encoder_uint8(e, N(BitOr(128, BitAnd(ToInt32(s32), 127)))),
                  N(Sar(ToInt32(s32), 7)))
         ELSE Encoder_uint8(e, N(BitAnd(ToInt32(s32), 127)))

Encoder_varint32(e, s32) ==
    IF ~e.ok THEN e
    ELSE IF ~assert_is_int32(s32) THEN Throw(e)
    ELSE varint32_loop(e, s32)

Encoder_varint7(e, s7) ==
    IF ~e.ok THEN e
    ELSE IF ~assert_is_int7(s7) THEN Throw(e)
    ELSE Encoder_uint8(e, N(BitAnd(ToInt32(s7), 127)))

(***************************************************************************)
(* binary.ts: the module data model.  A constructor that asserts is a      *)
(* predicate X_ok over its arguments and the record it builds.             *)
(***************************************************************************)

to_type_ok(value) == is_type(value)
to_value_type_ok(value) == is_value_type(value)
to_external_kind_ok(value) == is_external_kind(value)
to_section_code_ok(value) == is_section_code(value)

\* The constructor of FuncType without its assertion.
FuncType_ok_any_count(param_types, return_types) == 0 <= Len(return_types)

FuncType_ok(param_types, return_types) ==
    0 <= Len(return_types) /\ Len(return_types) <= 1

FuncType(param_types, return_types) ==
    [param_types |-> param_types, return_types |-> return_types]

CustomSection(name, payload_data) ==
    [id |-> N(section_code_Custom), name |-> name, payload_data |-> payload_data]

TypeSection == [id |-> N(section_code_Type), entries |-> <<>>]

TypeSection_add(section, signature) ==
    [section |-> [section EXCEPT !.entries = Append(@, signature)],
     ret |-> Len(section.entries)]

FunctionSection == [id |-> N(section_code_Function), types |-> <<>>]

FunctionSection_add_ok(index) == assert_is_uint32(index)

FunctionSection_add(section, index) ==
    [section |-> [section EXCEPT !.types = Append(@, index)],
     ret |-> Len(section.types)]

\* The constructor of ExportEntry without its assertion on the index of a
\* memory or global export.
ExportEntry_ok_any_index(name, kind, index) ==
    /\ assert_is_uint32(index)
    /\ to_external_kind_ok(kind)

ExportEntry_ok(name, kind, index) ==
    /\ assert_is_uint32(index)
    /\ to_external_kind_ok(kind)
    /\ \/ index = N(0)
       \/ (kind # N(external_kind_Global) /\ kind # N(external_kind_Memory))

ExportEntry(name, kind, index) == [name |-> name, kind |-> kind, index |-> index]

ExportSection == [id |-> N(section_code_Export), entries |-> <<>>]

ExportSection_add(section, entry) == [section EXCEPT !.entries = Append(@, entry)]

CodeSection == [id |-> N(section_code_Code), bodies |-> <<>>]

CodeSection_add(section, body) == [section EXCEPT !.bodies = Append(@, body)]

\* The constructor of FunctionBody with its first assertion only.
FunctionBody_ok_nonempty(locals, code) == Len(code) > 0

FunctionBody_ok(locals, code) ==
    /\ Len(code) > 0
    /\ code[Len(code)] = opcode_end

FunctionBody(locals, code) == [locals |-> locals, code |-> code]

LocalEntry_ok(count, type) == assert_is_uint32(count) /\ to_value_type_ok(type)

LocalEntry(count, type) == [count |-> count, type |-> type]

(***************************************************************************)
(* encoder.ts: strings, types and sections                                 *)
(***************************************************************************)

\* The loops of the encoder (for, forEach) run over the elements lo..hi of a
\* sequence in order; they are written by halving the range, which keeps the
\* depth of evaluation logarithmic in the length.

\* The body of the loop of utf8, writing to the nested encoder.
utf8_unit(encoder, codeUnit) ==
    IF ~(codeUnit < 128) THEN Throw(encoder)
    ELSE Encoder_uint8(encoder, N(codeUnit))

RECURSIVE utf8_units(_, _, _, _)
utf8_units(e, str, lo, hi) ==
    IF ~e.ok \/ lo > hi THEN e
    ELSE IF lo = hi THEN utf8_unit(e, str[lo])
    ELSE LET mid == (lo + hi) \div 2
         IN  utf8_units(utf8_units(e, str, lo, mid), str, mid + 1, hi)

\* Encoder.utf8 writing the length and the code units to this encoder, with
\* no temporary encoder.
Encoder_utf8_in_place(e, str) ==
    IF ~e.ok THEN e
    ELSE utf8_units(Encoder_varuint32(e, N(Len(str))), str, 1, Len(str))

Encoder_utf8(e, str) ==
    IF ~e.ok THEN e
    ELSE LET encoder == utf8_units(NewEncoder, str, 1, Len(str))
         IN  IF ~encoder.ok THEN Throw(e)
             ELSE Encoder_bytes(Encoder_varuint32(e, N(Len(encoder.buffer))),
                                encoder.buffer)

Encoder_op(e, op) ==
    IF ~e.ok THEN e
    ELSE IF ~is_opcode(op) THEN Throw(e)
    ELSE Encoder_uint8(e, op)

Encoder_type(e, type) ==
    IF ~e.ok THEN e
    ELSE IF ~to_type_ok(type) THEN Throw(e)
    ELSE Encoder_varint7(e, type)

Encoder_value_type(e, type) ==
    IF ~e.ok THEN e
    ELSE IF ~to_value_type_ok(type) THEN Throw(e)
    ELSE Encoder_varint7(e, type)

RECURSIVE Encoder_value_types(_, _, _, _)
Encoder_value_types(e, types, lo, hi) ==
    IF ~e.ok \/ lo > hi THEN e
    ELSE IF lo = hi THEN Encoder_value_type(e, types[lo])
    ELSE LET mid == (lo + hi) \div 2
         IN  Encoder_value_types(Encoder_value_types(e, types, lo, mid), types, mid + 1, hi)

Encoder_func_type(e, func) ==
    LET e1 == Encoder_type(e, N(type_func))
        e2 == Encoder_varuint32(e1, N(Len(func.param_types)))
        e3 == Encoder_value_types(e2, func.param_types, 1, Len(func.param_types))
        e4 == Encoder_varuint1(e3, N(Len(func.return_types)))
    IN  Encoder_value_types(e4, func.return_types, 1, Len(func.return_types))

Encoder_external_kind(e, kind) ==
    IF ~e.ok THEN e
    ELSE IF ~to_external_kind_ok(kind) THEN Throw(e)
    ELSE Encoder_uint8(e, kind)

MagicNumber == [hi |-> 28019, lo |-> 24832]

Encoder_module_preamble(e, preamble) ==
    Encoder_uint32(Encoder_uint32(e, preamble.magic_number), preamble.version)

Encoder_section_code(e, code) ==
    IF ~e.ok THEN e
    ELSE IF ~to_section_code_ok(code) THEN Throw(e)
    ELSE Encoder_varuint7(e, code)

\* The helper section(...) writing the section whatever elideIfEmpty says.
Encoder_section_never_elides(e, section, got, elideIfEmpty) ==
    IF ~e.ok THEN [enc |-> e, ret |-> FALSE]
    ELSE IF ~got.enc.ok THEN [enc |-> Throw(e), ret |-> FALSE]
    ELSE LET e1 == Encoder_varuint7(e, section.id)
             e2 == Encoder_varuint32(e1, N(Len(got.enc.buffer)))
             e3 == Encoder_bytes(e2, got.enc.buffer)
         IN  [enc |-> e3, ret |-> e3.ok /\ got.ret]

\* The private helper section(section, getPayload, elideIfEmpty); got is what
\* getPayload did with the nested payload encoder: [enc, ret].
\* The helper section(...) writing the section code before it asks for the
\* payload.
Encoder_section_code_first(e, section, got, elideIfEmpty) ==
    IF ~e.ok THEN [enc |-> e, ret |-> FALSE]
    ELSE IF ~got.enc.ok
         THEN [enc |-> Throw(Encoder_section_code(e, section.id)), ret |-> FALSE]
    ELSE IF ~got.ret /\ elideIfEmpty THEN [enc |-> e, ret |-> FALSE]
    ELSE LET e1 == Encoder_section_code(e, section.id)
             e2 == Encoder_varuint32(e1, N(Len(got.enc.buffer)))
             e3 == Encoder_bytes(e2, got.enc.buffer)
         IN  [enc |-> e3, ret |-> e3.ok /\ got.ret]

Encoder_section(e, section, got, elideIfEmpty) ==
    IF ~e.ok THEN [enc |-> e, ret |-> FALSE]
    ELSE IF ~got.enc.ok THEN [enc |-> Throw(e), ret |-> FALSE]
    ELSE IF ~got.ret /\ elideIfEmpty THEN [enc |-> e, ret |-> FALSE]
    ELSE LET e1 == Encoder_section_code(e, section.id)
             e2 == Encoder_varuint32(e1, N(Len(got.enc.buffer)))
             e3 == Encoder_bytes(e2, got.enc.buffer)
         IN  [enc |-> e3, ret |-> e3.ok /\ got.ret]

Encoder_custom_section(e, custom, elideIfEmpty) ==
    LET p == Encoder_bytes(Encoder_utf8(NewEncoder, custom.name), custom.payload_data)
    IN  Encoder_section(e, custom, [enc |-> p, ret |-> TRUE], elideIfEmpty)

\* checkSectionHasEntries reporting entries whenever its assertion passes.
checkSectionHasEntries_always(hasEntries, encoder, expectedEmptyLength) ==
    IF ~encoder.ok THEN [enc |-> encoder, ret |-> FALSE]
    ELSE IF hasEntries = (Len(encoder.buffer) = expectedEmptyLength)
         THEN [enc |-> Throw(encoder), ret |-> FALSE]
    ELSE [enc |-> encoder, ret |-> TRUE]

\* Debug.assert(hasEntries !== (encoder.buffer.length === expectedEmptyLength))
checkSectionHasEntries(hasEntries, encoder, expectedEmptyLength) ==
    IF ~encoder.ok THEN [enc |-> encoder, ret |-> FALSE]
    ELSE IF hasEntries = (Len(encoder.buffer) = expectedEmptyLength)
         THEN [enc |-> Throw(encoder), ret |-> FALSE]
    ELSE [enc |-> encoder, ret |-> hasEntries]

RECURSIVE Encoder_func_types(_, _, _, _)
Encoder_func_types(e, entries, lo, hi) ==
    IF ~e.ok \/ lo > hi THEN e
    ELSE IF lo = hi THEN Encoder_func_type(e, entries[lo])
    ELSE LET mid == (lo + hi) \div 2
         IN  Encoder_func_types(Encoder_func_types(e, entries, lo, mid), entries, mid + 1, hi)

type_section_count(encoder, n) == Encoder_varuint32(encoder, N(n))

Encoder_type_section(e, section, elideIfEmpty) ==
    LET p == Encoder_func_types(type_section_count(NewEncoder, Len(section.entries)),
                                section.entries, 1, Len(section.entries))
    IN  Encoder_section(e, section,
                        checkSectionHasEntries(Len(section.entries) > 0, p, 1),
                        elideIfEmpty)

RECURSIVE Encoder_varuint32s(_, _, _, _)
Encoder_varuint32s(e, types, lo, hi) ==
    IF ~e.ok \/ lo > hi THEN e
    ELSE IF lo = hi THEN Encoder_varuint32(e, types[lo])
    ELSE LET mid == (lo + hi) \div 2
         IN  Encoder_varuint32s(Encoder_varuint32s(e, types, lo, mid), types, mid + 1, hi)

function_section_count(encoder, n) == Encoder_varuint32(encoder, N(n))

Encoder_function_section(e, section, elideIfEmpty) ==
    LET p == Encoder_varuint32s(function_section_count(NewEncoder, Len(section.types)),
                                section.types, 1, Len(section.types))
    IN  Encoder_section(e, section,
                        checkSectionHasEntries(Len(section.types) > 0, p, 1),
                        elideIfEmpty)

Encoder_export_entry(e, entry) ==
    Encoder_varuint32(Encoder_external_kind(Encoder_utf8(e, entry.name), entry.kind),
                      entry.index)

RECURSIVE Encoder_export_entries(_, _, _, _)
Encoder_export_entries(e, entries, lo, hi) ==
    IF ~e.ok \/ lo > hi THEN e
    ELSE IF lo = hi THEN Encoder_export_entry(e, entries[lo])
    ELSE LET mid == (lo + hi) \div 2
         IN  Encoder_export_entries(Encoder_export_entries(e, entries, lo, mid), entries, mid + 1, hi)

\* encoder.varint32(section.entries.length)
export_section_count(encoder, n) == Encoder_varint32(encoder, N(n))

Encoder_export_section(e, section, elideIfEmpty) ==
    LET p == Encoder_export_entries(export_section_count(NewEncoder, Len(section.entries)),
                                    section.entries, 1, Len(section.entries))
    IN  Encoder_section(e, section,
                        checkSectionHasEntries(Len(section.entries) > 0, p, 1),
                        elideIfEmpty)

Encoder_local_entry(e, entry) ==
    Encoder_value_type(Encoder_varuint32(e, entry.count), entry.type)

RECURSIVE Encoder_local_entries(_, _, _, _)
Encoder_local_entries(e, locals, lo, hi) ==
    IF ~e.ok \/ lo > hi THEN e
    ELSE IF lo = hi THEN Encoder_local_entry(e, locals[lo])
    ELSE LET mid == (lo + hi) \div 2
         IN  Encoder_local_entries(Encoder_local_entries(e, locals, lo, mid), locals, mid + 1, hi)

Encoder_function_body(e, body) ==
    IF ~e.ok THEN e
    ELSE LET p1 == Encoder_varuint32(NewEncoder, N(Len(body.locals)))
             p2 == Encoder_local_entries(p1, body.locals, 1, Len(body.locals))
             payload == Encoder_bytes(p2, body.code)
         IN  IF ~payload.ok THEN Throw(e)
             ELSE IF payload.buffer[Len(payload.buffer)] # opcode_end THEN Throw(e)
             ELSE Encoder_bytes(Encoder_varuint32(e, N(Len(payload.buffer))),
                                payload.buffer)

RECURSIVE Encoder_function_bodies(_, _, _, _)
Encoder_function_bodies(e, bodies, lo, hi) ==
    IF ~e.ok \/ lo > hi THEN e
    ELSE IF lo = hi THEN Encoder_function_body(e, bodies[lo])
    ELSE LET mid == (lo + hi) \div 2
         IN  Encoder_function_bodies(Encoder_function_bodies(e, bodies, lo, mid), bodies, mid + 1, hi)

code_section_count(encoder, n) == Encoder_varuint32(encoder, N(n))

Encoder_code_section(e, section, elideIfEmpty) ==
    LET p == Encoder_function_bodies(code_section_count(NewEncoder, Len(section.bodies)),
                                     section.bodies, 1, Len(section.bodies))
    IN  Encoder_section(e, section,
                        checkSectionHasEntries(Len(section.bodies) > 0, p, 1),
                        elideIfEmpty)

(***************************************************************************)
(* decoder.ts: class Decoder.  A Decoder is [buffer, offset, ok]; a read   *)
(* returns [d, v]: the decoder after the read and the value read.          *)
(***************************************************************************)

Undefined == [undefined |-> TRUE]

NewDecoder(buffer) == [buffer |-> buffer, offset |-> 0, ok |-> TRUE]

remaining(d) == Len(d.buffer) - d.offset

Thrown(d) == [d |-> Throw(d), v |-> Undefined]

\* Decoder.uint8 advancing the cursor before its bounds check.
Decoder_uint8_advances_first(d) ==
    IF ~d.ok THEN Thrown(d)
    ELSE IF ~(remaining(d) > 0) THEN Thrown([d EXCEPT !.offset = @ + 1])
    ELSE LET result == d.buffer[d.offset + 1]
         IN  IF ~assert_is_uint8(N(result)) THEN Thrown([d EXCEPT !.offset = @ + 1])
             ELSE [d |-> [d EXCEPT !.offset = @ + 1], v |-> result]

Decoder_uint8(d) ==
    IF ~d.ok THEN Thrown(d)
    ELSE IF ~(remaining(d) > 0) THEN Thrown(d)
    ELSE LET result == d.buffer[d.offset + 1]
         IN  IF ~assert_is_uint8(N(result)) THEN Thrown(d)
             ELSE [d |-> [d EXCEPT !.offset = @ + 1], v |-> result]

\* Decoder.uint32 without the final coercion to unsigned (>>> 0).
Decoder_uint32_no_coercion(d) ==
    LET r1 == Decoder_uint8(d)
        r2 == Decoder_uint8(r1.d)
        r3 == Decoder_uint8(r2.d)
        r4 == Decoder_uint8(r3.d)
    IN  IF ~r4.d.ok THEN Thrown(r4.d)
        ELSE [d |-> r4.d,
              v |-> N(BitOr(BitOr(BitOr(r1.v, Shl(r2.v, 8)), Shl(r3.v, 16)),
                            Shl(r4.v, 24)))]

\* (uint8() | (uint8() << 8) | (uint8() << 16) | (uint8() << 24)) >>> 0
Decoder_uint32(d) ==
    LET r1 == Decoder_uint8(d)
        r2 == Decoder_uint8(r1.d)
        r3 == Decoder_uint8(r2.d)
        r4 == Decoder_uint8(r3.d)
    IN  IF ~r4.d.ok THEN Thrown(r4.d)
        ELSE [d |-> r4.d,
              v |-> ToUint32(N(BitOr(BitOr(BitOr(r1.v, Shl(r2.v, 8)), Shl(r3.v, 16)),
                                     Shl(r4.v, 24))))]

\* for (shift = 0; ; shift += 7) { byte = uint8(); result |= (byte & 0x7F) << shift;
\*   if ((byte & 0x80) === 0) { assert_is_int32(result); return result >>> 0; } }
RECURSIVE Decoder_varuint32_loop(_, _, _)
Decoder_varuint32_loop(d, result, shift) ==
    LET r == Decoder_uint8(d)
    IN  IF ~r.d.ok THEN Thrown(r.d)
        ELSE LET result2 == BitOr(result, Shl(BitAnd(r.v, 127), shift))
             IN  IF BitAnd(r.v, 128) = 0
                 THEN IF ~assert_is_int32(N(result2)) THEN Thrown(r.d)
                      ELSE [d |-> r.d, v |-> ToUint32(N(result2))]
                 ELSE Decoder_varuint32_loop(r.d, result2, shift + 7)

Decoder_varuint32(d) == Decoder_varuint32_loop(d, 0, 0)

Decoder_varuint1(d) ==
    LET r == Decoder_varuint32(d)
    IN  IF ~r.d.ok THEN r
        ELSE IF ~assert_is_uint1(r.v) THEN Thrown(r.d)
        ELSE r

Decoder_varuint7(d) ==
    LET r == Decoder_varuint32(d)
    IN  IF ~r.d.ok THEN r
        ELSE IF ~assert_is_uint7(r.v) THEN Thrown(r.d)
        ELSE r

\* The sign extension of varint32 without its guard shift < 32.
SignExtend_unguarded(result, byte, shift) ==
    IF BitAnd(byte, 64) # 0
    THEN BitOr(result, Shl(-1, shift))
    ELSE result

\* if ((byte & 0x40) !== 0) { if (shift < 32) { result |= (-1) << shift; } }
SignExtend(result, byte, shift) ==
    IF BitAnd(byte, 64) # 0 /\ shift < 32
    THEN BitOr(result, Shl(-1, shift))
    ELSE result

\* do { byte = uint8(); result |= (byte & 0x7F) << shift; shift += 7; }
\* while (byte >= 0x80);
RECURSIVE Decoder_varint32_loop(_, _, _)
Decoder_varint32_loop(d, result, shift) ==
    LET r == Decoder_uint8(d)
    IN  IF ~r.d.ok THEN Thrown(r.d)
        ELSE LET result2 == BitOr(result, Shl(BitAnd(r.v, 127), shift))
             IN  IF r.v >= 128
                 THEN Decoder_varint32_loop(r.d, result2, shift + 7)
                 ELSE [d |-> r.d, v |-> N(SignExtend(result2, r.v, shift + 7))]

Decoder_varint32(d) == Decoder_varint32_loop(d, 0, 0)

Decoder_varint7(d) ==
    LET r == Decoder_varint32(d)
    IN  IF ~r.d.ok THEN r
        ELSE IF ~assert_is_int7(r.v) THEN Thrown(r.d)
        ELSE r

\* assert_nonnegative_integer(count, "count")
assert_nonnegative_integer(count) == is_uint32(count)

\* bytes(count): count is a number (a Num).
Decoder_bytes(d, count) ==
    IF ~d.ok THEN Thrown(d)
    ELSE IF ~assert_nonnegative_integer(count) THEN Thrown(d)
    ELSE IF ~NumLe(count, N(remaining(d))) THEN Thrown(d)
    ELSE [d |-> [d EXCEPT !.offset = @ + Clamp(count)],
          v |-> SubSeq(d.buffer, d.offset + 1, d.offset + Clamp(count))]

Decoder_utf8(d) ==
    LET length == Decoder_varuint32(d)
        bytes == Decoder_bytes(length.d, length.v)
    IN  IF ~length.d.ok THEN length
        ELSE IF ~bytes.d.ok THEN bytes
        ELSE IF \E i \in 1 .. Len(bytes.v) : ~(bytes.v[i] < 128) THEN Thrown(bytes.d)
        ELSE bytes

Decoder_op(d) ==
    LET r == Decoder_uint8(d)
    IN  IF ~r.d.ok THEN r
        ELSE IF ~is_opcode(N(r.v)) THEN Thrown(r.d)
        ELSE [d |-> r.d, v |-> N(r.v)]

Decoder_type(d) ==
    LET r == Decoder_varint7(d)
    IN  IF ~r.d.ok THEN r
        ELSE IF ~to_type_ok(r.v) THEN Thrown(r.d)
        ELSE r

Decoder_value_type(d) ==
    LET r == Decoder_varint7(d)
    IN  IF ~r.d.ok THEN r
        ELSE IF ~to_value_type_ok(r.v) THEN Thrown(r.d)
        ELSE r

\* A method that reads several fields in turn is written as one definition
\* per field read: each takes what was read so far and reads the next field,
\* unless the read before it threw.

\* read.apply(this), for the reader named read.
RECURSIVE Decoder_read(_, _)

\* for (let i = count; i > 0; i--) { result.push(read.apply(this)); }
\* The count reads happen one after the other; they are written by halving
\* count, which keeps the depth of evaluation logarithmic.
RECURSIVE Decoder_repeat(_, _, _)

repeat_one(r) == IF ~r.d.ok THEN r ELSE [d |-> r.d, v |-> <<r.v>>]

repeat_join(a, b) == IF ~b.d.ok THEN b ELSE [d |-> b.d, v |-> a.v \o b.v]

repeat_rest(a, count, read) ==
    IF ~a.d.ok THEN a ELSE repeat_join(a, Decoder_repeat(a.d, count, read))

Decoder_repeat(d, count, read) ==
    IF ~(count > 0) THEN [d |-> d, v |-> <<>>]
    ELSE IF count = 1 THEN repeat_one(Decoder_read(d, read))
    ELSE repeat_rest(Decoder_repeat(d, count \div 2, read), count - (count \div 2), read)

\* sequenceOf(count, read): count is a number (a Num).
sequenceOf(d, count, read) ==
    IF ~assert_nonnegative_integer(count) THEN Thrown(d)
    ELSE Decoder_repeat(d, Clamp(count), read)

func_type_return_types(param_types, return_types) ==
    IF ~return_types.d.ok THEN return_types
    ELSE IF ~FuncType_ok(param_types.v, return_types.v) THEN Thrown(return_types.d)
    ELSE [d |-> return_types.d, v |-> FuncType(param_types.v, return_types.v)]

func_type_return_count(param_types, return_count) ==
    IF ~return_count.d.ok THEN return_count
    ELSE func_type_return_types(
             param_types, sequenceOf(return_count.d, return_count.v, "value_type"))

func_type_param_types(param_types) ==
    IF ~param_types.d.ok THEN param_types
    ELSE func_type_return_count(param_types, Decoder_varuint1(param_types.d))

func_type_param_count(param_count) ==
    IF ~param_count.d.ok THEN param_count
    ELSE func_type_param_types(sequenceOf(param_count.d, param_count.v, "value_type"))

Decoder_func_type(d) == func_type_param_count(Decoder_varuint32(d))

Decoder_external_kind(d) ==
    LET r == Decoder_uint8(d)
    IN  IF ~r.d.ok THEN r
        ELSE IF ~to_external_kind_ok(N(r.v)) THEN Thrown(r.d)
        ELSE [d |-> r.d, v |-> N(r.v)]

\* WasmVersion.Mvp (compiler/types.ts).
WasmVersion_Mvp == 1

Preamble_ok(version) == version = N(WasmVersion_Mvp)

\* The Preamble of the earlier revision of binary.ts that the repository also
\* holds (compiler/transformers/wasm/binary.ts): switch (this.version) {
\* case 0x0d: break; default: Debug.fail(...) }
Preamble_0x0d_ok(version) == version = N(13)

Preamble(version) == [magic_number |-> MagicNumber, version |-> version]

module_preamble_version(version) ==
    IF ~version.d.ok THEN version
    ELSE IF ~Preamble_ok(version.v) THEN Thrown(version.d)
    ELSE [d |-> version.d, v |-> Preamble(version.v)]

\* module_preamble without the assertion on the magic number.
module_preamble_any_magic(magic_number) ==
    IF ~magic_number.d.ok THEN magic_number
    ELSE module_preamble_version(Decoder_uint32(magic_number.d))

module_preamble_magic_number(magic_number) ==
    IF ~magic_number.d.ok THEN magic_number
    ELSE IF magic_number.v # MagicNumber THEN Thrown(magic_number.d)
    ELSE module_preamble_version(Decoder_uint32(magic_number.d))

Decoder_module_preamble(d) == module_preamble_magic_number(Decoder_uint32(d))

Decoder_section_code(d) ==
    LET r == Decoder_varuint7(d)
    IN  IF ~r.d.ok THEN r
        ELSE IF ~to_section_code_ok(r.v) THEN Thrown(r.d)
        ELSE r

custom_section_payload_data(name, payload_data) ==
    IF ~payload_data.d.ok THEN payload_data
    ELSE [d |-> payload_data.d, v |-> CustomSection(name.v, payload_data.v)]

custom_section_name(name, payload_len, custom_start) ==
    IF ~name.d.ok THEN name
    ELSE custom_section_payload_data(
             name,
             Decoder_bytes(name.d, NumAdd(payload_len, -(name.d.offset - custom_start))))

Decoder_custom_section(d, payload_len) ==
    custom_section_name(Decoder_utf8(d), payload_len, d.offset)

\* The body of the loop of type_section: the form, then the func_type.
type_section_form(form) ==
    IF ~form.d.ok THEN form
    ELSE IF form.v # N(type_func) THEN Thrown(form.d)
    ELSE Decoder_func_type(form.d)

Decoder_type_entry(d) == type_section_form(Decoder_varint7(d))

type_section_types(types) ==
    IF ~types.d.ok THEN types
    ELSE [d |-> types.d, v |-> [TypeSection EXCEPT !.entries = @ \o types.v]]

type_section_read(count) ==
    IF ~count.d.ok THEN count
    ELSE type_section_types(Decoder_repeat(count.d, Clamp(count.v), "type_entry"))

\* const count = this.varuint32()
type_section_read_count(d) == Decoder_varuint32(d)

Decoder_type_section(d) == type_section_read(type_section_read_count(d))

\* types.forEach(type => result.add(type))
FunctionSection_addAll(section, types) == [section EXCEPT !.types = @ \o types]

function_section_types(types) ==
    IF ~types.d.ok THEN types
    ELSE [d |-> types.d, v |-> FunctionSection_addAll(FunctionSection, types.v)]

function_section_read(count) ==
    IF ~count.d.ok THEN count
    ELSE function_section_types(sequenceOf(count.d, count.v, "varuint32"))

\* const count = this.varint32()
function_section_read_count(d) == Decoder_varint32(d)

Decoder_function_section(d) == function_section_read(function_section_read_count(d))

export_entry_index(name, kind, index) ==
    IF ~index.d.ok THEN index
    ELSE IF ~ExportEntry_ok(name.v, kind.v, index.v) THEN Thrown(index.d)
    ELSE [d |-> index.d, v |-> ExportEntry(name.v, kind.v, index.v)]

export_entry_kind(name, kind) ==
    IF ~kind.d.ok THEN kind ELSE export_entry_index(name, kind, Decoder_varuint32(kind.d))

export_entry_name(name) ==
    IF ~name.d.ok THEN name ELSE export_entry_kind(name, Decoder_external_kind(name.d))

Decoder_export_entry(d) == export_entry_name(Decoder_utf8(d))

\* entries.forEach(entry => result.add(entry))
ExportSection_addAll(section, entries) == [section EXCEPT !.entries = @ \o entries]

export_section_entries(entries) ==
    IF ~entries.d.ok THEN entries
    ELSE [d |-> entries.d, v |-> ExportSection_addAll(ExportSection, entries.v)]

export_section_read(count) ==
    IF ~count.d.ok THEN count
    ELSE export_section_entries(sequenceOf(count.d, count.v, "export_entry"))

\* const count = this.varint32()
export_section_read_count(d) == Decoder_varint32(d)

Decoder_export_section(d) == export_section_read(export_section_read_count(d))

local_entry_type(count, type) ==
    IF ~type.d.ok THEN type
    ELSE IF ~LocalEntry_ok(count.v, type.v) THEN Thrown(type.d)
    ELSE [d |-> type.d, v |-> LocalEntry(count.v, type.v)]

local_entry_count(count) ==
    IF ~count.d.ok THEN count ELSE local_entry_type(count, Decoder_varint7(count.d))

Decoder_local_entry(d) == local_entry_count(Decoder_varuint32(d))

function_body_code(locals, code) ==
    IF ~code.d.ok THEN code
    ELSE IF ~FunctionBody_ok(locals.v, code.v) THEN Thrown(code.d)
    ELSE [d |-> code.d, v |-> FunctionBody(locals.v, code.v)]

\* const localsSize = (this.offset - startLocals); bytes(body_size - localsSize)
function_body_locals(body_size, startLocals, locals) ==
    IF ~locals.d.ok THEN locals
    ELSE function_body_code(
             locals,
             Decoder_bytes(locals.d, NumAdd(body_size.v, -(locals.d.offset - startLocals))))

function_body_local_count(body_size, local_count) ==
    IF ~local_count.d.ok THEN local_count
    ELSE function_body_locals(
             body_size, body_size.d.offset,
             sequenceOf(local_count.d, local_count.v, "local_entry"))

function_body_body_size(body_size) ==
    IF ~body_size.d.ok THEN body_size
    ELSE function_body_local_count(body_size, Decoder_varuint32(body_size.d))

Decoder_function_body(d) == function_body_body_size(Decoder_varuint32(d))

code_section_bodies(bodies) ==
    IF ~bodies.d.ok THEN bodies
    ELSE [d |-> bodies.d, v |-> [CodeSection EXCEPT !.bodies = @ \o bodies.v]]

code_section_read(count) ==
    IF ~count.d.ok THEN count
    ELSE code_section_bodies(Decoder_repeat(count.d, Clamp(count.v), "function_body"))

\* const count = this.varuint32()
code_section_read_count(d) == Decoder_varuint32(d)

Decoder_code_section(d) == code_section_read(code_section_read_count(d))

Decoder_read(d, read) ==
    CASE read = "value_type" -> Decoder_value_type(d)
      [] read = "varuint32" -> Decoder_varuint32(d)
      [] read = "type_entry" -> Decoder_type_entry(d)
      [] read = "export_entry" -> Decoder_export_entry(d)
      [] read = "local_entry" -> Decoder_local_entry(d)
      [] read = "function_body" -> Decoder_function_body(d)

\* The switch of section() reading a section of any other id as a custom one.
section_payload_len_default_custom(id, payload_len) ==
    IF ~payload_len.d.ok THEN payload_len
    ELSE IF id.v = N(section_code_Type) THEN Decoder_type_section(payload_len.d)
    ELSE IF id.v = N(section_code_Function) THEN Decoder_function_section(payload_len.d)
    ELSE IF id.v = N(section_code_Export) THEN Decoder_export_section(payload_len.d)
    ELSE IF id.v = N(section_code_Code) THEN Decoder_code_section(payload_len.d)
    ELSE Decoder_custom_section(payload_len.d, payload_len.v)

\* switch (id) { case section_code.Custom: ... default: Debug.fail(...) }
section_payload_len(id, payload_len) ==
    IF ~payload_len.d.ok THEN payload_len
    ELSE IF id.v = N(section_code_Custom)
         THEN Decoder_custom_section(payload_len.d, payload_len.v)
    ELSE IF id.v = N(section_code_Type) THEN Decoder_type_section(payload_len.d)
    ELSE IF id.v = N(section_code_Function) THEN Decoder_function_section(payload_len.d)
    ELSE IF id.v = N(section_code_Export) THEN Decoder_export_section(payload_len.d)
    ELSE IF id.v = N(section_code_Code) THEN Decoder_code_section(payload_len.d)
    ELSE Thrown(payload_len.d)

section_id(id) ==
    IF ~id.d.ok THEN id ELSE section_payload_len(id, Decoder_varuint32(id.d))

Decoder_section(d) == section_id(Decoder_section_code(d))

(***************************************************************************)
(* The unit tests' use of the codec (harness/unittests/wasm/binary.ts):    *)
(* the encode and decode methods are looked up by name.                    *)
(***************************************************************************)

NumericCodecs ==
    {"uint8", "uint32", "varuint1", "varuint7", "varuint32", "varint7", "varint32"}

EnumCodecs == {"type", "value_type", "external_kind", "section_code"}

\* ((<any>encoder)[name]).bind(encoder)
EncodePrim(e, name, v) ==
    CASE name = "uint8" -> Encoder_uint8(e, v)
      [] name = "uint32" -> Encoder_uint32(e, v)
      [] name = "varuint1" -> Encoder_varuint1(e, v)
      [] name = "varuint7" -> Encoder_varuint7(e, v)
      [] name = "varuint32" -> Encoder_varuint32(e, v)
      [] name = "varint7" -> Encoder_varint7(e, v)
      [] name = "varint32" -> Encoder_varint32(e, v)
      [] name = "type" -> Encoder_type(e, v)
      [] name = "value_type" -> Encoder_value_type(e, v)
      [] name = "external_kind" -> Encoder_external_kind(e, v)
      [] name = "section_code" -> Encoder_section_code(e, v)

\* A byte read by uint8 is a number like any other to the caller.
AsNum(r) == IF r.d.ok THEN [d |-> r.d, v |-> N(r.v)] ELSE r

\* ((<any>decoder)[name]).bind(decoder)
DecodePrim(d, name) ==
    CASE name = "uint8" -> AsNum(Decoder_uint8(d))
      [] name = "uint32" -> Decoder_uint32(d)
      [] name = "varuint1" -> Decoder_varuint1(d)
      [] name = "varuint7" -> Decoder_varuint7(d)
      [] name = "varuint32" -> Decoder_varuint32(d)
      [] name = "varint7" -> Decoder_varint7(d)
      [] name = "varint32" -> Decoder_varint32(d)
      [] name = "type" -> Decoder_type(d)
      [] name = "value_type" -> Decoder_value_type(d)
      [] name = "external_kind" -> Decoder_external_kind(d)
      [] name = "section_code" -> Decoder_section_code(d)

\* An exception caught by the caller (assert.throws): the object is used again.
Caught(o) == [o EXCEPT !.ok = TRUE]

(***************************************************************************)
(* Inputs                                                                  *)
(***************************************************************************)

Uint32Max == [hi |-> 65535, lo |-> 65535]
TwoTo31 == [hi |-> 32768, lo |-> 0]
TwoTo32 == [hi |-> 65536, lo |-> 0]

leb128Cases == {63, 127, 8191, 16383, 1048575, 2097151, 134217727, 268435455}

unsignedCases == leb128Cases \cup {v + 1 : v \in leb128Cases}

signedCases ==
    unsignedCases \cup {(-v) - 1 : v \in leb128Cases} \cup {(-v) - 2 : v \in leb128Cases}
        \cup {-1, 0, 1}

\* The values of the tests, the bounds of every numeric type and their
\* neighbours, and values that differ from an in-range value by 2^32.
TestValues ==
    {N(v) : v \in signedCases \cup {2, 255, 256, -129, -128, 2147483647, MinInt32}}
        \cup {Uint32Max, TwoTo31, TwoTo32, NumAdd(TwoTo31, 1), NumAdd(TwoTo32, 5),
              NumAdd(N(MinInt32), -1), NumAdd(TwoTo32, -70000), [hi |-> -65536, lo |-> 1],
              [hi |-> -65537, lo |-> 65535 - 3]}

EnumValues(name) ==
    CASE name = "type" -> {N(v) : v \in {-65, -64, -33, -32, -17, -16, -5, -4, -3, -2, -1, 0}}
      [] name = "value_type" -> {N(v) : v \in -5 .. 0}
      [] name = "external_kind" -> {N(v) : v \in -1 .. 4}
      [] name = "section_code" -> {N(v) : v \in -1 .. 12}

PrimCases ==
    (NumericCodecs \X TestValues)
        \cup UNION {{<<name, v>> : v \in EnumValues(name)} : name \in EnumCodecs}

\* The declared range of a codec, [min, max].
Bounds(name) ==
    CASE name = "uint8" -> [min |-> N(0), max |-> N(255)]
      [] name = "uint32" -> [min |-> N(0), max |-> Uint32Max]
      [] name = "varuint1" -> [min |-> N(0), max |-> N(1)]
      [] name = "varuint7" -> [min |-> N(0), max |-> N(127)]
      [] name = "varuint32" -> [min |-> N(0), max |-> Uint32Max]
      [] name = "varint7" -> [min |-> N(-64), max |-> N(63)]
      [] name = "varint32" -> [min |-> N(MinInt32), max |-> N(2147483647)]
      [] name = "type" -> [min |-> N(-64), max |-> N(-1)]
      [] name = "value_type" -> [min |-> N(-4), max |-> N(-1)]
      [] name = "external_kind" -> [min |-> N(0), max |-> N(3)]
      [] name = "section_code" -> [min |-> N(0), max |-> N(11)]

\* The cases of a codec on a shared encoder/decoder pair: the values that
\* straddle its lower and upper bounds.
SharedCases ==
    UNION {{<<name, v>> : v \in {NumAdd(Bounds(name).min, -1), Bounds(name).min,
                                 Bounds(name).max, NumAdd(Bounds(name).max, 1)}}
           : name \in NumericCodecs \cup EnumCodecs}

\* The number of values encoded through one shared encoder/decoder pair.
MaxOps == 2

(***************************************************************************)
(* State                                                                   *)
(***************************************************************************)

VARIABLES
    encoder,    \* the Encoder under test
    decoder,    \* the Decoder under test
    aliased,    \* the decoder's buffer is the very array the encoder writes to
    pc,         \* the position of the test
    codec,      \* the name of the codec under test
    value,      \* the value handed to the encoder
    replica,    \* what the decoder returned
    ops,        \* the number of values handed to the encoder so far
    elideIfEmpty,   \* the flag handed to the section encode function
    hasEntries      \* what the section encode function returned

vars == <<encoder, decoder, aliased, pc, codec, value, replica, ops, elideIfEmpty,
          hasEntries>>

\* What a decoder constructed over the encoder's array sees after the encoder
\* went from e to e2: the same array, extended in place, unless the encoder
\* replaced its array by a new one.
See(d, e, e2) ==
    IF aliased /\ e2.gen = e.gen THEN [d EXCEPT !.buffer = e2.buffer] ELSE d

(***************************************************************************)
(* Primitive codecs: check_numeric, check_enum                             *)
(***************************************************************************)

\* const encoder = new Encoder(); const decoder = new Decoder(encoder.buffer);
InitPair ==
    /\ encoder = NewEncoder
    /\ decoder = NewDecoder(NewEncoder.buffer)
    /\ aliased = TRUE
    /\ replica = Undefined
    /\ ops = 0
    /\ elideIfEmpty = FALSE
    /\ hasEntries = FALSE

InitPrim ==
    /\ InitPair
    /\ pc = "encode"
    /\ \E c \in PrimCases : codec = c[1] /\ value = c[2]

InitShared ==
    /\ InitPair
    /\ pc = "idle"
    /\ codec = "uint8"
    /\ value = N(0)

\* The next case of cases.forEach(...).
Pick ==
    /\ pc \in {"idle", "threw", "read"}
    /\ ops < MaxOps
    /\ \E c \in SharedCases : codec' = c[1] /\ value' = c[2]
    /\ pc' = "encode"
    /\ ops' = ops + 1
    /\ UNCHANGED <<encoder, decoder, aliased, replica, elideIfEmpty, hasEntries>>

\* encode(value), which throws or not.
PrimEncode ==
    /\ pc = "encode"
    /\ \E e2 \in {EncodePrim(encoder, codec, value)} :
           /\ encoder' = Caught(e2)
           /\ decoder' = See(decoder, encoder, e2)
           /\ aliased' = (aliased /\ e2.gen = encoder.gen)
           /\ pc' = IF e2.ok THEN "decode" ELSE "threw"
    /\ UNCHANGED <<codec, value, replica, ops, elideIfEmpty, hasEntries>>

\* const actual = decode()
PrimDecode ==
    /\ pc = "decode"
    /\ \E r \in {DecodePrim(decoder, codec)} :
           /\ decoder' = Caught(r.d)
           /\ replica' = r.v
           /\ pc' = IF r.d.ok THEN "read" ELSE "readThrew"
    /\ UNCHANGED <<encoder, aliased, codec, value, ops, elideIfEmpty, hasEntries>>

NextPrim == PrimEncode \/ PrimDecode

SpecPrim == InitPrim /\ [][NextPrim]_vars

NextShared == Pick \/ PrimEncode \/ PrimDecode

SpecShared == InitShared /\ [][NextShared]_vars

(***************************************************************************)
(* Sections: check_section                                                 *)
(***************************************************************************)

SectionCodecs ==
    {"custom_section", "type_section", "function_section", "export_section",
     "code_section"}

\* ((<any>encoder)[name]).bind(encoder)
EncodeSection(e, name, section, elide) ==
    CASE name = "custom_section" -> Encoder_custom_section(e, section, elide)
      [] name = "type_section" -> Encoder_type_section(e, section, elide)
      [] name = "function_section" -> Encoder_function_section(e, section, elide)
      [] name = "export_section" -> Encoder_export_section(e, section, elide)
      [] name = "code_section" -> Encoder_code_section(e, section, elide)

\* The entries of a section, whatever its kind calls them.
Entries(name, section) ==
    CASE name = "custom_section" -> <<>>
      [] name = "type_section" -> section.entries
      [] name = "function_section" -> section.types
      [] name = "export_section" -> section.entries
      [] name = "code_section" -> section.bodies

\* "name" and "Memory" as UTF-16 code units, "pa" as bytes.
NamePool == {<<>>, <<110, 97, 109, 101>>}
PayloadPool == {<<>>, <<112, 97>>}

\* The sections the tests start from.
NewSections(name) ==
    CASE name = "custom_section" ->
             {CustomSection(n, p) : n \in NamePool, p \in PayloadPool}
      [] name = "type_section" -> {TypeSection}
      [] name = "function_section" -> {FunctionSection}
      [] name = "export_section" -> {ExportSection}
      [] name = "code_section" -> {CodeSection}

\* The smallest entry of each kind: no parameters and no results, type index 0,
\* an unnamed export of function 0, a body without locals that only ends.
PlainEntry(name) ==
    CASE name = "type_section" -> FuncType(<<>>, <<>>)
      [] name = "function_section" -> N(0)
      [] name = "export_section" -> ExportEntry(<<>>, N(external_kind_Function), N(0))
      [] name = "code_section" -> FunctionBody(<<>>, <<opcode_end>>)

\* The entries the tests add to a section of each kind.
EntryPool(name) ==
    CASE name = "custom_section" -> {}
      [] name = "type_section" ->
             {PlainEntry(name),
              FuncType(<<N(type_i64), N(type_f64), N(type_f32), N(type_i32)>>,
                       <<N(type_f64)>>)}
      [] name = "function_section" -> {PlainEntry(name), Uint32Max}
      [] name = "export_section" ->
             {PlainEntry(name),
              ExportEntry(<<>>, N(external_kind_Function), Uint32Max),
              ExportEntry(<<77, 101, 109, 111, 114, 121>>, N(external_kind_Memory), N(0))}
      [] name = "code_section" ->
             {PlainEntry(name),
              FunctionBody(<<LocalEntry(Uint32Max, N(type_i32))>>, <<opcode_end>>)}

\* The constructor and the add method accept the entry.
EntryOk(name, entry) ==
    CASE name = "type_section" -> FuncType_ok(entry.param_types, entry.return_types)
      [] name = "function_section" -> FunctionSection_add_ok(entry)
      [] name = "export_section" -> ExportEntry_ok(entry.name, entry.kind, entry.index)
      [] name = "code_section" ->
             /\ FunctionBody_ok(entry.locals, entry.code)
             /\ \A i \in 1 .. Len(entry.locals) :
                    LocalEntry_ok(entry.locals[i].count, entry.locals[i].type)

AddTo(name, section, entry) ==
    CASE name = "type_section" -> TypeSection_add(section, entry).section
      [] name = "function_section" -> FunctionSection_add(section, entry).section
      [] name = "export_section" -> ExportSection_add(section, entry)
      [] name = "code_section" -> CodeSection_add(section, entry)

\* The number of entries a section is built up to.
MaxEntries == 128

\* const original = new ...Section(...)
InitSection ==
    /\ encoder = NewEncoder
    /\ decoder = NewDecoder(<<>>)
    /\ aliased = FALSE
    /\ replica = Undefined
    /\ ops = 0
    /\ elideIfEmpty = FALSE
    /\ hasEntries = FALSE
    /\ pc = "built"
    /\ codec \in SectionCodecs
    /\ value \in NewSections(codec)

\* section.add(entry).  The first entry is any entry of the pool, the later
\* ones are the plain entry: sections differ in their length and in their
\* first entry.
AddEntry ==
    /\ pc = "built"
    /\ ops < MaxEntries
    /\ \E entry \in EntryPool(codec) :
           /\ ops > 0 => entry = PlainEntry(codec)
           /\ EntryOk(codec, entry)
           /\ value' = AddTo(codec, value, entry)
    /\ ops' = ops + 1
    /\ UNCHANGED <<encoder, decoder, aliased, pc, codec, replica, elideIfEmpty,
                   hasEntries>>

\* const encoder = new Encoder(); encode(original, elideIfEmpty)
SectionEncode ==
    /\ pc = "built"
    /\ \E elide \in BOOLEAN :
           \E r \in {EncodeSection(NewEncoder, codec, value, elide)} :
               /\ encoder' = r.enc
               /\ hasEntries' = r.ret
               /\ elideIfEmpty' = elide
               /\ pc' = IF r.enc.ok THEN "encoded" ELSE "threw"
    /\ UNCHANGED <<decoder, aliased, codec, value, replica, ops>>

\* const decoder = new Decoder(encoder.buffer); const replica = decoder.section()
SectionDecode ==
    /\ pc = "encoded"
    /\ \E r \in {Decoder_section(NewDecoder(encoder.buffer))} :
           /\ decoder' = r.d
           /\ replica' = r.v
           /\ pc' = IF r.d.ok THEN "decoded" ELSE "decodeThrew"
    /\ UNCHANGED <<encoder, aliased, codec, value, ops, elideIfEmpty, hasEntries>>

NextSection == AddEntry \/ SectionEncode \/ SectionDecode

SpecSection == InitSection /\ [][NextSection]_vars

(***************************************************************************)
(* Modules: the preamble followed by sections, read back by the loop of    *)
(* Disassembler.getText over Decoder.module_preamble and Decoder.section   *)
(***************************************************************************)

\* A section of the given kind with n plain entries, added one by one.
PlainSection(name, n) ==
    CASE name = "type_section" ->
             [TypeSection EXCEPT !.entries = [i \in 1 .. n |-> PlainEntry(name)]]
      [] name = "function_section" ->
             [FunctionSection EXCEPT !.types = [i \in 1 .. n |-> PlainEntry(name)]]
      [] name = "export_section" ->
             [ExportSection EXCEPT !.entries = [i \in 1 .. n |-> PlainEntry(name)]]
      [] name = "code_section" ->
             [CodeSection EXCEPT !.bodies = [i \in 1 .. n |-> PlainEntry(name)]]

\* The sections a module is assembled from: a custom section, and of each
\* other kind the empty section and one of half the greatest length.
ModuleSections(name) ==
    IF name = "custom_section"
    THEN {CustomSection(<<110, 97, 109, 101>>, <<112, 97>>)}
    ELSE {PlainSection(name, n) : n \in {0, MaxEntries \div 2}}

\* The number of section encodes of one module.
MaxSections == 2

\* const encoder = new Encoder()
InitModule ==
    /\ encoder = NewEncoder
    /\ decoder = NewDecoder(<<>>)
    /\ aliased = FALSE
    /\ pc = "preamble"
    /\ codec = "module_preamble"
    /\ value = <<>>
    /\ replica = <<>>
    /\ ops = 0
    /\ elideIfEmpty = FALSE
    /\ hasEntries = FALSE

\* encoder.module_preamble(new Preamble(WasmVersion.Mvp))
EmitPreamble ==
    /\ pc = "preamble"
    /\ Preamble_ok(N(WasmVersion_Mvp))
    /\ encoder' = Encoder_module_preamble(encoder, Preamble(N(WasmVersion_Mvp)))
    /\ pc' = "sections"
    /\ UNCHANGED <<decoder, aliased, codec, value, replica, ops, elideIfEmpty,
                   hasEntries>>

\* encoder.<kind>_section(section, elideIfEmpty); value lists the sections
\* the encoder has emitted.
EmitSection ==
    /\ pc = "sections"
    /\ ops < MaxSections
    /\ \E name \in SectionCodecs, elide \in BOOLEAN :
           \E section \in ModuleSections(name) :
               \E r \in {EncodeSection(encoder, name, section, elide)} :
                   /\ encoder' = r.enc
                   /\ hasEntries' = r.ret
                   /\ elideIfEmpty' = elide
                   /\ codec' = name
                   /\ value' = IF r.enc.buffer = encoder.buffer
                               THEN value
                               ELSE Append(value, section)
                   /\ pc' = IF r.enc.ok THEN "sections" ELSE "threw"
    /\ ops' = ops + 1
    /\ UNCHANGED <<decoder, aliased, replica>>

\* new Decoder(module); this.decoder.module_preamble()
ReadPreamble ==
    /\ pc = "sections"
    /\ \E r \in {Decoder_module_preamble(NewDecoder(encoder.buffer))} :
           /\ decoder' = r.d
           /\ pc' = IF r.d.ok THEN "expect_section" ELSE "decodeThrew"
    /\ UNCHANGED <<encoder, aliased, codec, value, replica, ops, elideIfEmpty,
                   hasEntries>>

\* Disassembler.section() with bytes remaining: this.decoder.section()
ReadSection ==
    /\ pc = "expect_section"
    /\ remaining(decoder) # 0
    /\ \E r \in {Decoder_section(decoder)} :
           /\ decoder' = r.d
           /\ replica' = IF r.d.ok THEN Append(replica, r.v) ELSE replica
           /\ pc' = IF r.d.ok THEN "expect_section" ELSE "decodeThrew"
    /\ UNCHANGED <<encoder, aliased, codec, value, ops, elideIfEmpty, hasEntries>>

\* Disassembler.section() with no bytes remaining: the loop of getText ends.
ReadEnd ==
    /\ pc = "expect_section"
    /\ remaining(decoder) = 0
    /\ pc' = "done"
    /\ UNCHANGED <<encoder, decoder, aliased, codec, value, replica, ops,
                   elideIfEmpty, hasEntries>>

NextModule == EmitPreamble \/ EmitSection \/ ReadPreamble \/ ReadSection \/ ReadEnd

SpecModule == InitModule /\ [][NextModule]_vars

(***************************************************************************)
(* Entries: the constructors of binary.ts, the sections built from one     *)
(* entry, and Decoder.section() over bytes that differ from what the       *)
(* encoder wrote                                                           *)
(***************************************************************************)

\* Strings as UTF-16 code units: "", "a", "name", "\x7f", "\x80", "a\xe9" and
\* the euro sign.
StringPool ==
    {<<>>, <<97>>, <<110, 97, 109, 101>>, <<127>>, <<128>>, <<97, 233>>, <<8364>>}

CodePool ==
    {<<>>, <<opcode_end>>, <<0>>, <<opcode_return>>, <<opcode_end, 0>>,
     <<0, opcode_end>>, <<opcode_return, opcode_end>>, <<opcode_end, opcode_end>>}

LocalsPool ==
    {<<>>, <<LocalEntry(N(1), N(type_i32))>>,
     <<LocalEntry(N(2), N(type_f64)), LocalEntry(N(1), N(type_i64))>>}

IndexPool == {N(-1), N(0), N(1), Uint32Max, TwoTo32}

KindPool == {N(k) : k \in -1 .. 4}

ParamPool == {<<>>, <<N(type_i32)>>, <<N(type_i32), N(type_f64)>>}

ReturnPool ==
    {<<>>, <<N(type_i32)>>, <<N(type_i32), N(type_i32)>>,
     <<N(type_f64), N(type_i32), N(type_i64)>>}

\* The arguments handed to the constructor of a custom section or of an entry
\* of a section (for a function section, to FunctionSection.add).
ArgPool(name) ==
    CASE name = "custom_section" ->
             {[name |-> n, payload_data |-> p] : n \in StringPool, p \in PayloadPool}
      [] name = "type_section" ->
             {[param_types |-> p, return_types |-> r] : p \in ParamPool, r \in ReturnPool}
      [] name = "function_section" -> IndexPool
      [] name = "export_section" ->
             {[name |-> n, kind |-> k, index |-> i] :
                 n \in {<<>>, <<110, 97, 109, 101>>}, k \in KindPool, i \in IndexPool}
      [] name = "code_section" ->
             {[locals |-> l, code |-> c] : l \in LocalsPool, c \in CodePool}

\* The assertions of the constructor pass.
ConstructOk(name, args) ==
    IF name = "custom_section" THEN TRUE ELSE EntryOk(name, args)

\* new CustomSection(...), new FuncType(...), new ExportEntry(...),
\* new FunctionBody(...); the index of a function section is the number itself.
Constructed(name, args) ==
    CASE name = "custom_section" -> CustomSection(args.name, args.payload_data)
      [] name = "type_section" -> FuncType(args.param_types, args.return_types)
      [] name = "function_section" -> args
      [] name = "export_section" -> ExportEntry(args.name, args.kind, args.index)
      [] name = "code_section" -> FunctionBody(args.locals, args.code)

\* The empty section of a kind.
EmptySection(name) ==
    CASE name = "type_section" -> TypeSection
      [] name = "function_section" -> FunctionSection
      [] name = "export_section" -> ExportSection
      [] name = "code_section" -> CodeSection

\* The bytes written over a byte of an encoded section: any section id for the
\* first byte, and for the others small counts, the end opcode, the form of a
\* function type, and bytes with the bit 0x40 or 0x80 set.
TamperBytes(i) == IF i = 1 THEN 0 .. 255 ELSE {0, 1, 2, 11, 64, 96, 127, 128, 255}

\* The longest encoded section a byte of which is overwritten.
MaxTampered == 12

InitEntry ==
    /\ encoder = NewEncoder
    /\ decoder = NewDecoder(<<>>)
    /\ aliased = FALSE
    /\ replica = Undefined
    /\ ops = 0
    /\ elideIfEmpty = FALSE
    /\ hasEntries = FALSE
    /\ codec \in SectionCodecs
    /\ \/ pc = "new" /\ value \in ArgPool(codec)
       \/ pc = "built" /\ value \in NewSections(codec)

\* new X(args): the constructor throws or returns the object.
Construct ==
    /\ pc = "new"
    /\ replica' = IF ConstructOk(codec, value) THEN Constructed(codec, value)
                  ELSE Undefined
    /\ pc' = IF ConstructOk(codec, value) THEN "constructed" ELSE "rejected"
    /\ UNCHANGED <<encoder, decoder, aliased, codec, value, ops, elideIfEmpty,
                   hasEntries>>

\* section.add(entry) on a new section; a custom section is the section.
Wrap ==
    /\ pc = "constructed"
    /\ value' = IF codec = "custom_section" THEN replica
                ELSE AddTo(codec, EmptySection(codec), replica)
    /\ replica' = Undefined
    /\ ops' = IF codec = "custom_section" THEN 0 ELSE 1
    /\ pc' = "built"
    /\ UNCHANGED <<encoder, decoder, aliased, codec, elideIfEmpty, hasEntries>>

\* const bytes = encoder.buffer.slice(); bytes[i] = b; new Decoder(bytes)
Tamper ==
    /\ pc = "encoded"
    /\ Len(encoder.buffer) <= MaxTampered
    /\ \E i \in 1 .. Len(encoder.buffer) :
           \E b \in TamperBytes(i) :
               /\ b # encoder.buffer[i]
               /\ decoder' = NewDecoder([encoder.buffer EXCEPT ![i] = b])
    /\ pc' = "tampered"
    /\ UNCHANGED <<encoder, aliased, codec, value, replica, ops, elideIfEmpty,
                   hasEntries>>

\* The LEB128 number of five bytes whose low 32 bits are the byte b and whose
\* fifth byte holds bit 32.
Overlong(b) == <<128 + b, 128, 128, 128, 16>>

\* new Decoder(bytes), bytes being the buffer of the encoder with one byte
\* below 0x80 written as a LEB128 number of five bytes.
Widen ==
    /\ pc = "encoded"
    /\ Len(encoder.buffer) <= MaxTampered
    /\ \E i \in 1 .. Len(encoder.buffer) :
           /\ encoder.buffer[i] < 128
           /\ decoder' = NewDecoder(SubSeq(encoder.buffer, 1, i - 1)
                                    \o Overlong(encoder.buffer[i])
                                    \o SubSeq(encoder.buffer, i + 1, Len(encoder.buffer)))
    /\ pc' = "tampered"
    /\ UNCHANGED <<encoder, aliased, codec, value, replica, ops, elideIfEmpty,
                   hasEntries>>

\* decoder.section() over the bytes the decoder was constructed on.
TamperedDecode ==
    /\ pc = "tampered"
    /\ \E r \in {Decoder_section(decoder)} :
           /\ decoder' = r.d
           /\ replica' = r.v
           /\ pc' = IF r.d.ok THEN "decoded" ELSE "decodeThrew"
    /\ UNCHANGED <<encoder, aliased, codec, value, ops, elideIfEmpty, hasEntries>>

NextEntry ==
    Construct \/ Wrap \/ SectionEncode \/ SectionDecode \/ Tamper \/ Widen
        \/ TamperedDecode

SpecEntry == InitEntry /\ [][NextEntry]_vars

(***************************************************************************)
(* Frames: section encodes on an Encoder that holds the preamble, of       *)
(* sections that can and sections that cannot be encoded                   *)
(***************************************************************************)

\* Sections with an entry the encoder refuses: a name with U+00E9, a payload
\* byte of 256 or -1, a parameter or result that is no value_type, a type
\* index of 2^32 pushed on types, a code byte of 256 before the end opcode.
\* The constructors accept all of them.
BadSections(name) ==
    CASE name = "custom_section" ->
             {CustomSection(<<97, 233>>, <<>>), CustomSection(<<97>>, <<112, 256>>),
              CustomSection(<<>>, <<-1>>)}
      [] name = "type_section" ->
             {AddTo(name, TypeSection, FuncType(<<N(type_i32), N(0)>>, <<>>)),
              AddTo(name, AddTo(name, TypeSection, PlainEntry(name)),
                    FuncType(<<>>, <<N(-5)>>))}
      [] name = "function_section" ->
             {[FunctionSection EXCEPT !.types = <<N(0), TwoTo32>>]}
      [] name = "export_section" ->
             {AddTo(name, ExportSection,
                    ExportEntry(<<97, 233>>, N(external_kind_Function), N(0))),
              AddTo(name, AddTo(name, ExportSection, PlainEntry(name)),
                    ExportEntry(<<8364>>, N(external_kind_Table), N(1)))}
      [] name = "code_section" ->
             {AddTo(name, CodeSection, FunctionBody(<<>>, <<256, opcode_end>>)),
              AddTo(name, AddTo(name, CodeSection, PlainEntry(name)),
                    FunctionBody(<<LocalEntry(N(1), N(type_i32))>>, <<-1, opcode_end>>))}

\* Sections the encoder accepts: the empty section and sections of one entry.
GoodSections(name) ==
    IF name = "custom_section" THEN NewSections(name)
    ELSE {PlainSection(name, n) : n \in {0, 1}}

\* The number of section encodes on one encoder.
MaxFrames == 2

\* const encoder = new Encoder()
InitFrame ==
    /\ encoder = NewEncoder
    /\ decoder = NewDecoder(<<>>)
    /\ aliased = FALSE
    /\ pc = "preamble"
    /\ codec = "module_preamble"
    /\ value = [section |-> Undefined, before |-> <<>>]
    /\ replica = Undefined
    /\ ops = 0
    /\ elideIfEmpty = FALSE
    /\ hasEntries = FALSE

\* encoder.<kind>_section(section, elideIfEmpty); a throw is caught and the
\* encoder is used again.  value keeps the section and the buffer before the
\* call.
FrameEncode ==
    /\ pc \in {"sections", "threw"}
    /\ ops < MaxFrames
    /\ \E name \in SectionCodecs, elide \in BOOLEAN :
           \E section \in GoodSections(name) \cup BadSections(name) :
               \E r \in {EncodeSection(encoder, name, section, elide)} :
                   /\ encoder' = Caught(r.enc)
                   /\ hasEntries' = r.ret
                   /\ elideIfEmpty' = elide
                   /\ codec' = name
                   /\ value' = [section |-> section, before |-> encoder.buffer]
                   /\ pc' = IF r.enc.ok THEN "sections" ELSE "threw"
    /\ ops' = ops + 1
    /\ UNCHANGED <<decoder, aliased, replica>>

NextFrame == EmitPreamble \/ FrameEncode

SpecFrame == InitFrame /\ [][NextFrame]_vars

(***************************************************************************)
(* Strings: utf8 on one Encoder, string after string, and utf8 of a Decoder *)
(* over the bytes, as written or with a string byte overwritten            *)
(***************************************************************************)

\* The strings, as sequences of code units: the pool of names and a string
\* whose length takes two bytes.
Utf8Strings == StringPool \cup {[i \in 1 .. 128 |-> 97]}

\* The number of strings handed to one encoder.
MaxStrings == 2

\* What overwrites a string byte.
HighBytes == {128, 233, 255}

InitUtf8 ==
    /\ encoder = NewEncoder
    /\ decoder = NewDecoder(<<>>)
    /\ aliased = FALSE
    /\ pc = "idle"
    /\ codec = "utf8"
    /\ value = [str |-> <<>>, before |-> <<>>]
    /\ replica = Undefined
    /\ ops = 0
    /\ elideIfEmpty = FALSE
    /\ hasEntries = FALSE

\* encoder.utf8(str); a throw is caught and the encoder is used again.
Utf8Encode ==
    /\ pc \in {"idle", "encoded", "threw", "decoded", "decodeThrew"}
    /\ ops < MaxStrings
    /\ \E str \in Utf8Strings :
           \E e \in {Encoder_utf8(encoder, str)} :
               /\ encoder' = Caught(e)
               /\ value' = [str |-> str, before |-> encoder.buffer]
               /\ pc' = IF e.ok THEN "encoded" ELSE "threw"
    /\ ops' = ops + 1
    /\ replica' = Undefined
    /\ UNCHANGED <<decoder, aliased, codec, elideIfEmpty, hasEntries>>

\* new Decoder(encoder.buffer.slice()), read up to the last string.
Utf8Open ==
    /\ pc = "encoded"
    /\ decoder' = [NewDecoder(encoder.buffer) EXCEPT !.offset = Len(value.before)]
    /\ pc' = "opened"
    /\ UNCHANGED <<encoder, aliased, codec, value, replica, ops, elideIfEmpty,
                   hasEntries>>

\* Where the bytes of the last string start in the buffer of the encoder.
StringStart == Len(encoder.buffer) - Len(value.str)

\* One byte of the last string overwritten in the buffer of the decoder.
Utf8Tamper ==
    /\ pc = "opened"
    /\ Len(value.str) <= MaxTampered
    /\ \E i \in StringStart + 1 .. Len(decoder.buffer) :
           \E b \in HighBytes :
               decoder' = [decoder EXCEPT !.buffer[i] = b]
    /\ pc' = "tampered"
    /\ UNCHANGED <<encoder, aliased, codec, value, replica, ops, elideIfEmpty,
                   hasEntries>>

\* decoder.utf8()
Utf8Decode ==
    /\ pc \in {"opened", "tampered"}
    /\ \E r \in {Decoder_utf8(decoder)} :
           /\ decoder' = Caught(r.d)
           /\ replica' = r.v
           /\ pc' = IF r.d.ok THEN "decoded" ELSE "decodeThrew"
    /\ UNCHANGED <<encoder, aliased, codec, value, ops, elideIfEmpty, hasEntries>>

NextUtf8 == Utf8Encode \/ Utf8Open \/ Utf8Tamper \/ Utf8Decode

SpecUtf8 == InitUtf8 /\ [][NextUtf8]_vars

(***************************************************************************)
(* Reads: a Decoder over bytes that come from anywhere, read by any        *)
(* sequence of its public methods                                          *)
(***************************************************************************)

\* The bytes of the short buffers: zero, one, a byte with payload bit 4, a
\* byte with only the continuation bit, and 0xff.
ByteValues == {0, 1, 16, 128, 255}

\* The length of the longest short buffer.
MaxLen == 3

\* LEB128 numbers of five and six bytes: the greatest uint32, numbers whose
\* fifth byte holds bits above bit 31, numbers whose fifth byte continues.
LongLeb128 ==
    {<<255, 255, 255, 255, 15>>, <<128, 128, 128, 128, 16>>,
     <<255, 255, 255, 255, 127>>, <<128, 128, 128, 128, 128, 0>>,
     <<128, 128, 128, 128, 128, 1>>, <<255, 255, 255, 255, 255, 1>>}

Buffers == UNION {[1 .. n -> ByteValues] : n \in 0 .. MaxLen} \cup LongLeb128

\* The public reads of the Decoder.
Readers ==
    {"uint8", "bytes", "uint32", "varuint32", "varuint1", "varuint7", "varint32",
     "varint7", "utf8", "op", "type", "value_type", "external_kind",
     "module_preamble", "section_code", "section", "code_section"}

\* The counts handed to bytes(count).
ByteCounts == {N(-1), N(0), N(1), N(2), TwoTo32}

\* ((<any>decoder)[name]).bind(decoder), with count the argument of bytes.
ReadBy(d, name, count) ==
    CASE name = "bytes" -> Decoder_bytes(d, count)
      [] name = "utf8" -> Decoder_utf8(d)
      [] name = "op" -> Decoder_op(d)
      [] name = "module_preamble" -> Decoder_module_preamble(d)
      [] name = "section" -> Decoder_section(d)
      [] name = "code_section" -> Decoder_code_section(d)
      [] OTHER -> DecodePrim(d, name)

\* The number of reads of one decoder.
MaxReads == 3

\* const decoder = new Decoder(bytes)
InitRead ==
    /\ encoder = NewEncoder
    /\ decoder \in {NewDecoder(b) : b \in Buffers}
    /\ aliased = FALSE
    /\ pc = "idle"
    /\ codec = "uint8"
    /\ value = [count |-> N(0), offset |-> 0]
    /\ replica = Undefined
    /\ ops = 0
    /\ elideIfEmpty = FALSE
    /\ hasEntries = FALSE

\* One read, which returns or throws; a throw is caught and the decoder is
\* read again.  value keeps the argument of the read and the offset before it.
Read ==
    /\ ops < MaxReads
    /\ \E name \in Readers :
           \E count \in (IF name = "bytes" THEN ByteCounts ELSE {N(0)}) :
               \E r \in {ReadBy(decoder, name, count)} :
                   /\ decoder' = Caught(r.d)
                   /\ replica' = r.v
                   /\ codec' = name
                   /\ value' = [count |-> count, offset |-> decoder.offset]
                   /\ pc' = IF r.d.ok THEN "read" ELSE "readThrew"
    /\ ops' = ops + 1
    /\ UNCHANGED <<encoder, aliased, elideIfEmpty, hasEntries>>

NextRead == Read

SpecRead == InitRead /\ [][NextRead]_vars

(***************************************************************************)
(* Preambles: the constructor, Encoder.module_preamble, and                *)
(* Decoder.module_preamble over the bytes written and over bytes that      *)
(* differ from them                                                        *)
(***************************************************************************)

\* The two revisions of class Preamble.
PreambleClasses == {"Preamble", "Preamble_0x0d"}

\* Version numbers: 0, the MVP version, 2, the historical 0x0d, 0x0d000000,
\* the 0xBADADABA of the tests, and two numbers that are no uint32.
VersionPool ==
    {N(0), N(WasmVersion_Mvp), N(2), N(13), [hi |-> 3328, lo |-> 0],
     [hi |-> 47834, lo |-> 56026], N(-1), NumAdd(TwoTo32, 1)}

\* The assertions of the constructor of the given revision pass.
PreambleClass_ok(class, version) ==
    IF class = "Preamble" THEN Preamble_ok(version) ELSE Preamble_0x0d_ok(version)

\* The bytes written over a byte of an encoded preamble.
PreambleBytes == {0, 1, 13, 97, 186, 255}

\* The byte arrays handed to a Decoder in place of an encoded preamble: the
\* array itself, its prefixes, the array with one byte overwritten, and the
\* array with one more byte.
Corrupted(buffer) ==
    {SubSeq(buffer, 1, n) : n \in 0 .. Len(buffer)}
        \cup {[buffer EXCEPT ![i] = b] : i \in 1 .. Len(buffer), b \in PreambleBytes}
        \cup {Append(buffer, b) : b \in PreambleBytes}

InitPreamble ==
    /\ encoder = NewEncoder
    /\ decoder = NewDecoder(<<>>)
    /\ aliased = FALSE
    /\ pc = "new"
    /\ codec \in PreambleClasses
    /\ value \in VersionPool
    /\ replica = Undefined
    /\ ops = 0
    /\ elideIfEmpty = FALSE
    /\ hasEntries = FALSE

\* new Preamble(version)
ConstructPreamble ==
    /\ pc = "new"
    /\ replica' = IF PreambleClass_ok(codec, value) THEN Preamble(value) ELSE Undefined
    /\ pc' = IF PreambleClass_ok(codec, value) THEN "constructed" ELSE "rejected"
    /\ UNCHANGED <<encoder, decoder, aliased, codec, value, ops, elideIfEmpty,
                   hasEntries>>

\* const encoder = new Encoder(); encoder.module_preamble(preamble)
EncodePreamble ==
    /\ pc = "constructed"
    /\ \E e \in {Encoder_module_preamble(NewEncoder, replica)} :
           /\ encoder' = e
           /\ pc' = IF e.ok THEN "encoded" ELSE "threw"
    /\ UNCHANGED <<decoder, aliased, codec, value, replica, ops, elideIfEmpty,
                   hasEntries>>

\* new Decoder(bytes)
Corrupt ==
    /\ pc = "encoded"
    /\ \E bytes \in Corrupted(encoder.buffer) : decoder' = NewDecoder(bytes)
    /\ pc' = "bytes"
    /\ UNCHANGED <<encoder, aliased, codec, value, replica, ops, elideIfEmpty,
                   hasEntries>>

\* decoder.module_preamble()
DecodePreamble ==
    /\ pc = "bytes"
    /\ \E r \in {Decoder_module_preamble(decoder)} :
           /\ decoder' = r.d
           /\ replica' = r.v
           /\ pc' = IF r.d.ok THEN "decoded" ELSE "decodeThrew"
    /\ UNCHANGED <<encoder, aliased, codec, value, ops, elideIfEmpty, hasEntries>>

NextPreamble == ConstructPreamble \/ EncodePreamble \/ Corrupt \/ DecodePreamble

SpecPreamble == InitPreamble /\ [][NextPreamble]_vars

(***************************************************************************)
(* encoder.ts: float64 and class OpEncoder.  A 64b float is [w0, w1]: the  *)
(* two words DataView.getUint32(0, true) and getUint32(4, true) read from  *)
(* the Float64Array holding it, i.e. the low and the high word of its IEEE *)
(* 754 bits on a little-endian platform.                                   *)
(***************************************************************************)

F64(high, low) == [w0 |-> low, w1 |-> high]

\* 3.141592653589793 = 0x400921fb54442d18
F64_pi == F64([hi |-> 16393, lo |-> 8699], [hi |-> 21572, lo |-> 11544])
\* 1 = 0x3ff0000000000000
F64_one == F64([hi |-> 16368, lo |-> 0], N(0))
\* 0x7ff8000000000000, the NaN of parseFloat
F64_nan == F64([hi |-> 32760, lo |-> 0], N(0))

\* Encoder.float64 emitting bytes 4-7 before bytes 0-3.
Encoder_float64_high_first(e, f64) ==
    Encoder_uint32(Encoder_uint32(e, f64.w1), f64.w0)

Encoder_float64(e, f64) ==
    Encoder_uint32(Encoder_uint32(e, f64.w0), f64.w1)

\* An OpEncoder is the Encoder of its RawOpEncoder.
NewOpEncoder == NewEncoder

RawOpEncoder_op(code, op) == Encoder_op(code, op)

RawOpEncoder_op_f64(code, op, f64) == Encoder_float64(Encoder_op(code, op), f64)

F64OpEncoder_const(code, v) == RawOpEncoder_op_f64(code, N(opcode_f64_const), v)

OpEncoder_return(code) == RawOpEncoder_op(code, N(opcode_return))

OpEncoder_end(code) == RawOpEncoder_op(code, N(opcode_end))

(***************************************************************************)
(* wasm.ts: WasmModule, WasmScope, WasmFunction, WasmBlock and emit.  A    *)
(* WasmBlock is [code, locals]: its OpEncoder, Undefined once the block    *)
(* was emitted, and the entries of its scope of locals.  A WasmFunction is *)
(* [name, func_type, isExported, body].  A call returns [ok, ...]: whether *)
(* it returned, and the objects it changed.                                *)
(***************************************************************************)

\* new WasmScope(parent, entries): firstIndex is the parent's nextIndex.
WasmScope(parentNextIndex, entries) ==
    [firstIndex |-> parentNextIndex, types |-> entries]

WasmScope_nextIndex(scope) == scope.firstIndex + Len(scope.types)

\* for (i = firstIndex; i < nextIndex; i++) locals.push(new LocalEntry(1, getTypeOf(i)))
WasmScope_asLocals(scope) ==
    [i \in 1 .. Len(scope.types) |-> LocalEntry(N(1), scope.types[i])]

WasmBlock(locals) == [code |-> NewOpEncoder, locals |-> locals]

\* WasmBlock.emit adding the code as it is, with no end opcode.
WasmBlock_emit_no_end(block, section) ==
    IF block.code = Undefined THEN [ok |-> FALSE, block |-> block, section |-> section]
    ELSE [ok |-> TRUE, block |-> [block EXCEPT !.code = Undefined],
          section |-> CodeSection_add(section,
                          FunctionBody(WasmScope_asLocals(block.locals), block.code.buffer))]

WasmBlock_emit(block, section) ==
    IF block.code = Undefined THEN [ok |-> FALSE, block |-> block, section |-> section]
    ELSE LET code == OpEncoder_end(block.code)
             locals == WasmScope_asLocals(block.locals)
         IN  IF ~code.ok \/ ~FunctionBody_ok(locals, code.buffer)
                    \/ \E i \in 1 .. Len(locals) :
                           ~LocalEntry_ok(locals[i].count, locals[i].type)
             THEN [ok |-> FALSE, block |-> [block EXCEPT !.code = code],
                   section |-> section]
             ELSE [ok |-> TRUE, block |-> [block EXCEPT !.code = Undefined],
                   section |-> CodeSection_add(section, FunctionBody(locals, code.buffer))]

\* new WasmFunction(module, name, params, returns, isExported): the locals
\* of the body are a scope with no entries whose parent holds the params.
WasmFunction_ok(name, params, returns, isExported) == FuncType_ok(params, returns)

WasmFunction(name, params, returns, isExported) ==
    [name |-> name, func_type |-> FuncType(params, returns), isExported |-> isExported,
     body |-> WasmBlock(WasmScope(WasmScope_nextIndex(WasmScope(0, params)), <<>>))]

\* The sections a WasmModule.emit fills, with the indices add returned.
NewModuleSections ==
    [ok |-> TRUE, types |-> TypeSection, functions |-> FunctionSection,
     exports |-> ExportSection, code |-> CodeSection, indices |-> <<>>, decls |-> <<>>]

\* exports.add(new ExportEntry(this.name, external_kind.Function, functionIndex))
WasmFunction_export(decl, exports, functionIndex) ==
    IF ~decl.isExported THEN [ok |-> TRUE, section |-> exports]
    ELSE IF ~ExportEntry_ok(decl.name, N(external_kind_Function), N(functionIndex))
         THEN [ok |-> FALSE, section |-> exports]
    ELSE [ok |-> TRUE,
          section |-> ExportSection_add(exports,
                          ExportEntry(decl.name, N(external_kind_Function),
                                      N(functionIndex)))]

\* WasmFunction.emit exporting the signature index plus one.
WasmFunction_emit_next_index(m, decl) ==
    LET t == TypeSection_add(m.types, decl.func_type)
        f == FunctionSection_add(m.functions, N(t.ret))
        x == WasmFunction_export(decl, m.exports, f.ret + 1)
        b == WasmBlock_emit(decl.body, m.code)
    IN  [ok |-> m.ok /\ x.ok /\ b.ok, types |-> t.section, functions |-> f.section,
         exports |-> x.section, code |-> b.section,
         indices |-> Append(m.indices, [signatureIndex |-> t.ret, functionIndex |-> f.ret]),
         decls |-> Append(m.decls, [decl EXCEPT !.body = b.block])]

\* decl.emit(types, functions, exports, code); m holds the sections and the
\* declarations emitted so far.
WasmFunction_emit(m, decl) ==
    IF ~m.ok THEN [m EXCEPT !.decls = Append(@, decl)]
    ELSE LET t == TypeSection_add(m.types, decl.func_type)
             signatureIndex == t.ret
         IN  IF ~FunctionSection_add_ok(N(signatureIndex))
             THEN [m EXCEPT !.ok = FALSE, !.types = t.section, !.decls = Append(@, decl)]
             ELSE LET f == FunctionSection_add(m.functions, N(signatureIndex))
                      functionIndex == f.ret
                      x == WasmFunction_export(decl, m.exports, functionIndex)
                  IN  IF ~x.ok
                      THEN [m EXCEPT !.ok = FALSE, !.types = t.section,
                                     !.functions = f.section, !.decls = Append(@, decl)]
                      ELSE LET b == WasmBlock_emit(decl.body, m.code)
                           IN  [ok |-> b.ok, types |-> t.section,
                                functions |-> f.section, exports |-> x.section,
                                code |-> b.section,
                                indices |-> Append(m.indices,
                                    [signatureIndex |-> signatureIndex,
                                     functionIndex |-> functionIndex]),
                                decls |-> Append(m.decls, [decl EXCEPT !.body = b.block])]

\* this.functionDecls.forEach(decl => { decl.emit(types, functions, exports, code); })
RECURSIVE WasmModule_emit_decls(_, _, _)
WasmModule_emit_decls(m, functionDecls, i) ==
    IF i > Len(functionDecls) THEN m
    ELSE WasmModule_emit_decls(WasmFunction_emit(m, functionDecls[i]), functionDecls, i + 1)

\* WasmModule.emit writing the code section before the export section.
WasmModule_emit_sections_code_first(e, m) ==
    LET e1 == Encoder_module_preamble(e, Preamble(N(WasmVersion_Mvp)))
        e2 == Encoder_type_section(e1, m.types, TRUE).enc
        e3 == Encoder_function_section(e2, m.functions, TRUE).enc
        e4 == Encoder_code_section(e3, m.code, TRUE).enc
    IN  Encoder_export_section(e4, m.exports, TRUE).enc

\* The preamble and the four sections, ordered by section id, each elided
\* if empty.
WasmModule_emit_sections(e, m) ==
    IF ~Preamble_ok(N(WasmVersion_Mvp)) THEN Throw(e)
    ELSE LET e1 == Encoder_module_preamble(e, Preamble(N(WasmVersion_Mvp)))
             e2 == Encoder_type_section(e1, m.types, TRUE).enc
             e3 == Encoder_function_section(e2, m.functions, TRUE).enc
             e4 == Encoder_export_section(e3, m.exports, TRUE).enc
         IN  Encoder_code_section(e4, m.code, TRUE).enc

\* WasmModule.emit(encoder): [enc, m], the encoder and the sections and
\* declarations after the call; it returned iff enc.ok.
WasmModule_emit(functionDecls, e) ==
    LET m == WasmModule_emit_decls(NewModuleSections, functionDecls, 1)
    IN  IF ~m.ok THEN [enc |-> Throw(e), m |-> m]
        ELSE [enc |-> WasmModule_emit_sections(e, m), m |-> m]

\* visitNumericLiteral: wasmBlock.code.f64.const(parseFloat(text))
visitNumericLiteral(wasmBlock, v) ==
    [wasmBlock EXCEPT !.code = F64OpEncoder_const(@, v)]

\* One ReturnStatement of visitBlock: the expression, if any, then return.
visitReturnStatement(wasmBlock, tsReturnExpr) ==
    LET b == IF tsReturnExpr = Undefined THEN wasmBlock
             ELSE visitNumericLiteral(wasmBlock, tsReturnExpr)
    IN  [b EXCEPT !.code = OpEncoder_return(@)]

RECURSIVE visitBlock(_, _, _)
visitBlock(wasmBlock, statements, i) ==
    IF i > Len(statements) THEN wasmBlock
    ELSE visitBlock(visitReturnStatement(wasmBlock, statements[i]), statements, i + 1)

\* visitFunctionDeclaration: wasmModule.function(name, params, returns,
\* isExported), then visitBlock(wasmFunc.body, tsFunc.body).
visitFunctionDeclaration(tsFunc) ==
    LET wasmFunc == WasmFunction(tsFunc.name, tsFunc.params, tsFunc.returns,
                                 tsFunc.isExported)
    IN  [wasmFunc EXCEPT !.body = visitBlock(@, tsFunc.statements, 1)]

\* The tail of emit without the check of the diagnostics.
emit_module_always(functionDecls, diagnostics) ==
    LET r == WasmModule_emit(functionDecls, NewEncoder)
    IN  [encoded |-> TRUE, enc |-> r.enc, m |-> r.m,
         written |-> IF r.enc.ok THEN <<r.enc.buffer>> ELSE <<>>]

\* if (diagnostics.getDiagnostics().length === 0) { const wasmEncoder = new
\* Encoder(); wasmModule.emit(wasmEncoder); host.writeFile(outFile,
\* wasmEncoder.buffer, false); }
emit_module(functionDecls, diagnostics) ==
    IF diagnostics # 0
    THEN [encoded |-> FALSE, enc |-> NewEncoder, m |-> NewModuleSections, written |-> <<>>]
    ELSE LET r == WasmModule_emit(functionDecls, NewEncoder)
         IN  [encoded |-> TRUE, enc |-> r.enc, m |-> r.m,
              written |-> IF r.enc.ok THEN <<r.enc.buffer>> ELSE <<>>]

(***************************************************************************)
(* The front-end: emit(resolver, host, diagnostics, sourceFiles, outFile)  *)
(* over function declarations, with diagnostics the collection may hold.   *)
(* value is [decls, diagnostics, m]: the functionDecls of the WasmModule,  *)
(* the number of diagnostics, the sections WasmModule.emit filled; encoder *)
(* is wasmEncoder; replica lists the buffers handed to host.writeFile.     *)
(***************************************************************************)

\* function pi() { return 3.141592653589793; } and others, exported or not:
\* [name, params, returns, isExported, statements], a statement being the
\* expression of a ReturnStatement.  U+00E9 is an identifier of TypeScript.
FunctionDeclarations ==
    {[name |-> <<112, 105>>, params |-> <<>>, returns |-> <<N(type_f64)>>,
      isExported |-> TRUE, statements |-> <<F64_pi>>],
     [name |-> <<102>>, params |-> <<>>, returns |-> <<>>,
      isExported |-> FALSE, statements |-> <<>>],
     [name |-> <<103>>, params |-> <<N(type_i32)>>, returns |-> <<>>,
      isExported |-> TRUE, statements |-> <<Undefined>>],
     [name |-> <<233>>, params |-> <<N(type_f64), N(type_i32)>>,
      returns |-> <<N(type_f64)>>,
      isExported |-> FALSE, statements |-> <<F64_one, Undefined>>],
     [name |-> <<233, 116>>, params |-> <<>>, returns |-> <<N(type_f64)>>,
      isExported |-> TRUE, statements |-> <<F64_nan>>]}

\* The number of function declarations in the source files.
MaxDecls == 2

\* The number of diagnostics the collection holds.
MaxDiagnostics == 1

InitEmit ==
    /\ encoder = NewEncoder
    /\ decoder = NewDecoder(<<>>)
    /\ aliased = FALSE
    /\ pc = "visiting"
    /\ codec = "emit"
    /\ value = [decls |-> <<>>, diagnostics |-> 0, m |-> NewModuleSections]
    /\ replica = <<>>
    /\ ops = 0
    /\ elideIfEmpty = TRUE
    /\ hasEntries = FALSE

\* visitSourceFile: case SyntaxKind.FunctionDeclaration
VisitFunction ==
    /\ pc = "visiting"
    /\ Len(value.decls) < MaxDecls
    /\ \E tsFunc \in FunctionDeclarations :
           /\ WasmFunction_ok(tsFunc.name, tsFunc.params, tsFunc.returns,
                              tsFunc.isExported)
           /\ value' = [value EXCEPT !.decls = Append(@, visitFunctionDeclaration(tsFunc))]
    /\ ops' = ops + 1
    /\ UNCHANGED <<encoder, decoder, aliased, pc, codec, replica, elideIfEmpty,
                   hasEntries>>

\* unexpectedNode(node): Debug.fail; emit ends before the check of the
\* diagnostics.
VisitUnexpected ==
    /\ pc = "visiting"
    /\ pc' = "unexpected"
    /\ UNCHANGED <<encoder, decoder, aliased, codec, value, replica, ops,
                   elideIfEmpty, hasEntries>>

\* this.diagnostics.add(...): WasmModule.error, or the phases before emit.
Report ==
    /\ pc = "visiting"
    /\ value.diagnostics < MaxDiagnostics
    /\ value' = [value EXCEPT !.diagnostics = @ + 1]
    /\ UNCHANGED <<encoder, decoder, aliased, pc, codec, replica, ops,
                   elideIfEmpty, hasEntries>>

\* The source files are visited: the check of the diagnostics, the encode
\* and the write.
EmitModule ==
    /\ pc = "visiting"
    /\ \E r \in {emit_module(value.decls, value.diagnostics)} :
           /\ encoder' = r.enc
           /\ value' = [value EXCEPT !.m = r.m]
           /\ replica' = replica \o r.written
           /\ pc' = IF ~r.encoded THEN "skipped"
                    ELSE IF r.enc.ok THEN "written" ELSE "failed"
    /\ UNCHANGED <<decoder, aliased, codec, ops, elideIfEmpty, hasEntries>>

NextEmit == VisitFunction \/ VisitUnexpected \/ Report \/ EmitModule

SpecEmit == InitEmit /\ [][NextEmit]_vars

(***************************************************************************)
(* One WasmBlock: opcodes written through its OpEncoder, then emit on a    *)
(* CodeSection, and emit again.  value is [block, section, before,         *)
(* written]: the block, the code section, the code of the block and the    *)
(* bodies of the section before the last emit, the opcodes written.        *)
(***************************************************************************)

\* The parameters of the function the block belongs to.
BlockParams == {<<>>, <<N(type_f64), N(type_i32)>>}

\* The constants of the numeric literals.
Literals == {F64_pi, F64_one, F64_nan}

\* The number of opcodes written to the block before it is emitted.
MaxCode == 3

\* The number of calls of emit on the block.
MaxEmits == 2

InitBlock ==
    /\ encoder = NewEncoder
    /\ decoder = NewDecoder(<<>>)
    /\ aliased = FALSE
    /\ pc = "open"
    /\ codec = "WasmBlock"
    /\ \E params \in BlockParams, first \in {CodeSection, PlainSection("code_section", 1)} :
           value = [block |-> WasmFunction(<<102>>, params, <<>>, FALSE).body,
                    section |-> first,
                    before |-> [code |-> <<>>, bodies |-> first.bodies],
                    written |-> 0]
    /\ replica = Undefined
    /\ ops = 0
    /\ elideIfEmpty = FALSE
    /\ hasEntries = FALSE

\* wasmBlock.code.return()
BlockReturn ==
    /\ pc = "open"
    /\ value.written < MaxCode
    /\ value' = [value EXCEPT !.block.code = OpEncoder_return(@), !.written = @ + 1]
    /\ UNCHANGED <<encoder, decoder, aliased, pc, codec, replica, ops, elideIfEmpty,
                   hasEntries>>

\* wasmBlock.code.f64.const(value)
BlockConst ==
    /\ pc = "open"
    /\ value.written < MaxCode
    /\ \E v \in Literals :
           value' = [value EXCEPT !.block.code = F64OpEncoder_const(@, v),
                                  !.written = @ + 1]
    /\ UNCHANGED <<encoder, decoder, aliased, pc, codec, replica, ops, elideIfEmpty,
                   hasEntries>>

\* wasmBlock.emit(section); a failure is caught and the block is used again.
BlockEmit ==
    /\ pc \in {"open", "emitted", "refused"}
    /\ ops < MaxEmits
    /\ \E r \in {WasmBlock_emit(value.block, value.section)} :
           /\ value' = [block |-> r.block, section |-> r.section,
                        before |-> [code |-> IF value.block.code = Undefined
                                             THEN Undefined
                                             ELSE value.block.code.buffer,
                                    bodies |-> value.section.bodies],
                        written |-> value.written]
           /\ pc' = IF r.ok THEN "emitted" ELSE "refused"
    /\ ops' = ops + 1
    /\ UNCHANGED <<encoder, decoder, aliased, codec, replica, elideIfEmpty, hasEntries>>

NextBlock == BlockReturn \/ BlockConst \/ BlockEmit

SpecBlock == InitBlock /\ [][NextBlock]_vars

(***************************************************************************)
(* class Disassembler.  A Disassembler is [decoder, decodedMark, types,    *)
(* functions, exports, ok] and what it wrote: ranges, the byte ranges      *)
(* [from, to) of the module that decoded() printed, and lines, the         *)
(* instructions that code() printed, each [op, immediates].                *)
(***************************************************************************)

\* opcodes[op].immediates: the kinds of the immediates of the opcode.
OpcodeImmediates(op) ==
    IF op \in {32, 33, 34} THEN <<"local_index : varuint32">>
    ELSE IF op \in {2, 3, 4} THEN <<"sig : block_type">>
    ELSE IF op \in {12, 13} THEN <<"relative_depth : varuint32">>
    ELSE IF op = 14 THEN <<"see below">>
    ELSE IF op = 16 THEN <<"function_index : varuint32">>
    ELSE IF op = 17 THEN <<"type_index : varuint32, reserved : varuint1">>
    ELSE IF op \in {35, 36} THEN <<"global_index : varuint32">>
    ELSE IF op \in 40 .. 62 THEN <<"memory_immediate">>
    ELSE IF op \in {63, 64} THEN <<"reserved : varuint1">>
    ELSE IF op = 65 THEN <<"value : varint32">>
    ELSE IF op = 66 THEN <<"value : varint64">>
    ELSE IF op = 67 THEN <<"value : uint32">>
    ELSE IF op = opcode_f64_const THEN <<"value : uint64">>
    ELSE <<>>

\* getOpcodeInfo(op): Debug.assert(info !== undefined, "Unrecognized opcode.")
getOpcodeInfo_ok(op) == op \in OpcodeValues

NewDisassembler(module) ==
    [decoder |-> NewDecoder(module), decodedMark |-> 0, types |-> Undefined,
     functions |-> Undefined, exports |-> Undefined, ok |-> TRUE,
     ranges |-> <<>>, lines |-> <<>>]

\* decoded() leaving the mark where it is.
Disassembler_decoded_keeps_mark(self) ==
    [self EXCEPT !.ranges = Append(@, [from |-> self.decodedMark,
                                       to |-> self.decoder.offset])]

\* this.bytes(this.module, this.decodedMark, this.decoder.offset);
\* this.decodedMark = this.decoder.offset
Disassembler_decoded(self) ==
    [self EXCEPT !.ranges = Append(@, [from |-> self.decodedMark,
                                       to |-> self.decoder.offset]),
                 !.decodedMark = self.decoder.offset]

\* The failure of a call on the Disassembler, with the decoder as the call
\* left it.
Disassembler_fail(self, d) == [self EXCEPT !.decoder = d, !.ok = FALSE]

\* this.decoded() after decoder.module_preamble() returned.
module_preamble_decoded(self, preamble) ==
    IF ~preamble.d.ok THEN Disassembler_fail(self, preamble.d)
    ELSE Disassembler_decoded([self EXCEPT !.decoder = preamble.d])

\* module_preamble(): decoder.module_preamble(), then decoded()
Disassembler_module_preamble(self) ==
    module_preamble_decoded(self, Decoder_module_preamble(self.decoder))

\* One instruction of code(): [d, lines, ok], the decoder of the code, the
\* lines printed and whether nothing failed.
code_fail(r) == [r EXCEPT !.ok = FALSE]

\* case "local_index : varuint32": return `$${decoder.varuint32()}`
code_local_index(r, local_index) ==
    IF ~local_index.d.ok THEN code_fail(r)
    ELSE [r EXCEPT !.d = local_index.d,
                   !.lines[Len(r.lines)].immediates
                       = Append(@, [local_index |-> local_index.v])]

\* The immediates of one instruction: only "local_index : varuint32" is
\* decoded, any other kind is Debug.fail("Not Implemented: ...").
RECURSIVE code_immediates(_, _, _)
code_immediates(r, kinds, i) ==
    IF ~r.ok \/ i > Len(kinds) THEN r
    ELSE IF kinds[i] = "local_index : varuint32"
         THEN code_immediates(code_local_index(r, Decoder_varuint32(r.d)), kinds, i + 1)
    ELSE code_fail(r)

\* opInfo = getOpcodeInfo(decoder.op()), then its immediates.
code_op(r, op) ==
    IF ~op.d.ok THEN code_fail(r)
    ELSE IF ~getOpcodeInfo_ok(op.v.lo) THEN code_fail(r)
    ELSE code_immediates([r EXCEPT !.d = op.d,
                                   !.lines = Append(@, [op |-> op.v.lo,
                                                        immediates |-> <<>>])],
                         OpcodeImmediates(op.v.lo), 1)

\* while (decoder.remaining > 0) { ... }; the name of an opcode is written
\* before its immediates are decoded.
RECURSIVE code_loop(_)
code_loop(r) ==
    IF ~r.ok THEN r
    ELSE IF ~(remaining(r.d) > 0) THEN r
    ELSE code_loop(code_op(r, Decoder_op(r.d)))

code_done(self, r) == [self EXCEPT !.lines = r.lines, !.ok = r.ok]

\* code(code): const decoder = new Decoder(code)
Disassembler_code(self, code) ==
    code_done(self, code_loop([d |-> NewDecoder(code), lines |-> self.lines, ok |-> TRUE]))

\* function_body(index, body): the signature is
\* this.types.entries[this.functions.types[index]]; reading a property of
\* undefined is a TypeError.
Disassembler_function_body(self, index, body) ==
    IF self.types = Undefined \/ self.functions = Undefined THEN [self EXCEPT !.ok = FALSE]
    ELSE IF index + 1 > Len(self.functions.types) THEN [self EXCEPT !.ok = FALSE]
    ELSE IF ~NumLt(self.functions.types[index + 1], N(Len(self.types.entries)))
         THEN [self EXCEPT !.ok = FALSE]
    ELSE Disassembler_code(self, body.code)

\* code.bodies.forEach((body, index) => { ...; this.function_body(index, body); })
RECURSIVE Disassembler_code_section(_, _, _)
Disassembler_code_section(self, code, index) ==
    IF ~self.ok \/ index + 1 > Len(code.bodies) THEN self
    ELSE Disassembler_code_section(
             Disassembler_function_body(self, index, code.bodies[index + 1]),
             code, index + 1)

\* handler(section): only the handler of the code section can fail.
section_handler(self, section) ==
    IF section.id = N(section_code_Code)
    THEN Disassembler_code_section(self, section, 0)
    ELSE self

\* section_helper(name, section, handler): decoded(), then the handler.
Disassembler_section_helper(self, section) ==
    section_handler(Disassembler_decoded(self), section)

\* this.types = section, this.functions = section, this.exports = section
section_kept(self, section) ==
    [self EXCEPT
        !.decoder = section.d,
        !.types = IF section.v.id = N(section_code_Type) THEN section.v ELSE @,
        !.functions = IF section.v.id = N(section_code_Function) THEN section.v ELSE @,
        !.exports = IF section.v.id = N(section_code_Export) THEN section.v ELSE @]

\* return this.decoder.remaining !== 0
section_more(self) == [self |-> self, more |-> self.ok /\ remaining(self.decoder) # 0]

\* section() that hands the section to the helper and leaves the decoder
\* where it was before the section.
section_decoded_rereads(self, section) ==
    IF ~section.d.ok
    THEN [self |-> Disassembler_fail(self, section.d), more |-> FALSE]
    ELSE section_more(Disassembler_section_helper(
                          section_kept(self, [section EXCEPT !.d = self.decoder]),
                          section.v))

\* The switch of section() on the section that decoder.section() returned.
section_decoded(self, section) ==
    IF ~section.d.ok
    THEN [self |-> Disassembler_fail(self, section.d), more |-> FALSE]
    ELSE section_more(Disassembler_section_helper(section_kept(self, section), section.v))

\* section(): [self, more], the Disassembler after the call and the value
\* returned.
Disassembler_section(self) ==
    IF remaining(self.decoder) = 0 THEN [self |-> self, more |-> FALSE]
    ELSE section_decoded(self, Decoder_section(self.decoder))

\* self.decoded() after self.module_preamble()
getText_decoded(self) == IF ~self.ok THEN self ELSE Disassembler_decoded(self)

\* The start of getText: new Disassembler(module, newLine), module_preamble()
\* and the decoded() that follows it.
Disassembler_getText_preamble(module) ==
    getText_decoded(Disassembler_module_preamble(NewDisassembler(module)))

(***************************************************************************)
(* Disassembler.getText(module, newLine) over modules the front-end wrote, *)
(* as written and truncated or extended, and over modules whose code reads *)
(* a local.  value is the Disassembler, decoder its decoder; replica is    *)
(* [offset, mark]: the offset of the decoder and the decoded mark before   *)
(* the last call of section(); ops counts the calls of section().          *)
(***************************************************************************)

\* The function declarations of the source files of a module.
DeclLists == UNION {[1 .. n -> FunctionDeclarations] : n \in 0 .. MaxDecls}

\* What the encoder holds after WasmModule.emit, whether it returned or not.
EmittedModules ==
    {WasmModule_emit([i \in 1 .. Len(l) |-> visitFunctionDeclaration(l[i])],
                     NewEncoder).enc.buffer : l \in DeclLists}

\* function (a: boolean) { return a; }: get_local 0, return, end, with the
\* type and the function section or, for a module a decoder is not to
\* accept, without them.
LocalModules ==
    LET signature == FuncType(<<N(type_i32)>>, <<N(type_i32)>>)
        body == FunctionBody(<<LocalEntry(N(2), N(type_f64))>>,
                             <<32, 0, opcode_return, opcode_end>>)
        code == CodeSection_add(CodeSection, body)
        m == [NewModuleSections EXCEPT
                 !.types = TypeSection_add(TypeSection, signature).section,
                 !.functions = FunctionSection_add(FunctionSection, N(0)).section,
                 !.code = code]
    IN  {WasmModule_emit_sections(NewEncoder, m).buffer,
         WasmModule_emit_sections(NewEncoder, [NewModuleSections EXCEPT !.code = code]).buffer}

\* A module without its last byte, with an empty custom section or a Data
\* section after it, and with its first byte changed.
Variants(module) ==
    {module, SubSeq(module, 1, Len(module) - 1), module \o <<section_code_Custom, 1, 0>>,
     module \o <<section_code_Data, 0>>, <<1>> \o SubSeq(module, 2, Len(module))}

DisasmModules == UNION {Variants(module) : module \in EmittedModules \cup LocalModules}

InitDisasm ==
    /\ encoder = NewEncoder
    /\ \E module \in DisasmModules :
           /\ decoder = NewDecoder(module)
           /\ value = NewDisassembler(module)
    /\ aliased = FALSE
    /\ pc = "getText"
    /\ codec = "getText"
    /\ replica = [offset |-> 0, mark |-> 0]
    /\ ops = 0
    /\ elideIfEmpty = FALSE
    /\ hasEntries = FALSE

\* self.module_preamble(); self.decoded()
DisasmPreamble ==
    /\ pc = "getText"
    /\ \E self \in {Disassembler_getText_preamble(decoder.buffer)} :
           /\ value' = self
           /\ decoder' = self.decoder
           /\ pc' = IF self.ok THEN "sections" ELSE "failed"
    /\ UNCHANGED <<encoder, aliased, codec, replica, ops, elideIfEmpty, hasEntries>>

\* One test of the loop while (self.section());
DisasmSection ==
    /\ pc = "sections"
    /\ \E r \in {Disassembler_section(value)} :
           /\ value' = r.self
           /\ decoder' = r.self.decoder
           /\ hasEntries' = r.more
           /\ pc' = IF ~r.self.ok THEN "failed"
                    ELSE IF r.more THEN "sections" ELSE "returned"
    /\ replica' = [offset |-> decoder.offset, mark |-> value.decodedMark]
    /\ ops' = ops + 1
    /\ UNCHANGED <<encoder, aliased, codec, elideIfEmpty>>

NextDisasm == DisasmPreamble \/ DisasmSection

SpecDisasm == InitDisasm /\ [][NextDisasm]_vars

\* A step of getText as pc and ops show it: the preamble, or one more call
\* of section().  Such a step is possible exactly where NextDisasm is, with
\* pc at "getText" or "sections", and every step of NextDisasm is one.
GetTextStep ==
    /\ pc \in {"getText", "sections"}
    /\ pc' \in {"sections", "returned", "failed"}
    /\ ops' \in {ops, ops + 1}

\* getText is one synchronous call: it runs until it returns or fails, no
\* step of it waits for anything.
SpecDisasmFair == SpecDisasm /\ WF_<<pc, ops>>(GetTextStep)

(***************************************************************************)
(* Properties of the primitive codecs                                      *)
(***************************************************************************)

InRange(name, v) == NumLe(Bounds(name).min, v) /\ NumLe(v, Bounds(name).max)

EnumMembers(name) ==
    CASE name = "type" -> {N(v) : v \in {-1, -2, -3, -4, -16, -32, -64}}
      [] name = "value_type" -> {N(v) : v \in {-1, -2, -3, -4}}
      [] name = "external_kind" -> {N(v) : v \in {0, 1, 2, 3}}
      [] name = "section_code" -> {N(v) : v \in 0 .. 11}

\* The values the codec is declared to accept.
Valid(name, v) ==
    IF name \in EnumCodecs THEN v \in EnumMembers(name) ELSE InRange(name, v)

\* The is_* predicate of the width of a numeric codec.
IsPredicate(name, v) ==
    CASE name = "uint8" -> is_uint8(v)
      [] name = "uint32" -> is_uint32(v)
      [] name = "varuint1" -> is_uint1(v)
      [] name = "varuint7" -> is_uint7(v)
      [] name = "varuint32" -> is_uint32(v)
      [] name = "varint7" -> is_int7(v)
      [] name = "varint32" -> is_int32(v)

UnsignedCodecs == {"uint8", "uint32", "varuint1", "varuint7", "varuint32"}

SignedCodecs == {"varint7", "varint32"}

Finished == pc \in {"threw", "read", "readThrew"}

\* C4: for each unsigned primitive codec and every value of its range, the
\* decoder's read of the bytes the encoder wrote returns the value, as a
\* non-negative number, and consumes exactly the bytes written.
C4_UnsignedRoundTrip ==
    (codec \in UnsignedCodecs /\ InRange(codec, value) /\ Finished) =>
        /\ pc = "read"
        /\ replica = value
        /\ NumLe(N(0), replica)
        /\ Len(encoder.buffer) > 0
        /\ decoder.offset = Len(encoder.buffer)

C4_Witness ==
    /\ pc = "read"
    /\ codec = "varuint32"
    /\ value = Uint32Max
    /\ replica = Uint32Max
    /\ Len(encoder.buffer) = 5

\* C5: for every int32 s, Decoder.varint32 of the bytes of Encoder.varint32(s)
\* returns s and consumes exactly those bytes, 5-byte encodings included; the
\* same for varint7 on [-64, 63].
C5_SignedRoundTrip ==
    (codec \in SignedCodecs /\ InRange(codec, value) /\ Finished) =>
        /\ pc = "read"
        /\ replica = value
        /\ NumLt(value, N(0)) => NumLt(replica, N(0))
        /\ Len(encoder.buffer) > 0
        /\ decoder.offset = Len(encoder.buffer)

C5_Witness ==
    /\ pc = "read"
    /\ codec = "varint32"
    /\ value = N(MinInt32)
    /\ replica = N(MinInt32)
    /\ Len(encoder.buffer) = 5

\* C6: the encoder operation of each numeric codec fails for every integer
\* outside the codec's declared range and succeeds for every integer inside
\* it, and the is_* predicate of that width is true exactly on the range.
C6_RangeChecked ==
    codec \in NumericCodecs =>
        /\ pc # "encode" => ((pc = "threw") <=> ~InRange(codec, value))
        /\ pc = "threw" => encoder.buffer = <<>>
        /\ IsPredicate(codec, value) <=> InRange(codec, value)

C6_Witness ==
    /\ pc = "threw"
    /\ codec = "varuint32"
    /\ value = TwoTo32
    /\ ~is_uint32(value)

\* C7: on one encoder and one decoder constructed over its buffer before
\* anything is written, an encode of an invalid value fails and leaves the
\* buffer and the decoder as they were, and the read that follows an encode of
\* a valid value returns that value and leaves remaining == 0.
C7_SharedPairFrame ==
    [][/\ pc = "encode" => ((pc' = "threw") <=> ~Valid(codec, value))
       /\ (pc = "encode" /\ pc' = "threw") =>
              /\ encoder'.buffer = encoder.buffer
              /\ decoder'.buffer = decoder.buffer
              /\ decoder'.offset = decoder.offset
       /\ pc = "decode" =>
              /\ pc' = "read"
              /\ replica' = value
              /\ remaining(decoder') = 0]_vars

\* A failing encode on a pair that already holds a value written and read.
C7_Witness ==
    /\ pc = "threw"
    /\ ops = 2
    /\ Len(encoder.buffer) > 0
    /\ decoder.offset = Len(encoder.buffer)

(***************************************************************************)
(* Properties of the section codecs                                        *)
(***************************************************************************)

\* The unsigned LEB128 encoding of a natural number, by its definition.
RECURSIVE UnsignedLeb128(_)
UnsignedLeb128(n) ==
    IF n < 128 THEN <<n>> ELSE <<128 + (n % 128)>> \o UnsignedLeb128(n \div 128)

\* b is a prefix of the sequence a.
IsPrefix(b, a) == Len(b) <= Len(a) /\ SubSeq(a, 1, Len(b)) = b

\* The payload of the one section held by buffer: what follows the id byte and
\* the varuint32 payload length, which counts exactly the bytes that follow it.
PayloadOf(buffer) ==
    LET h == CHOOSE k \in 2 .. Len(buffer) :
                 SubSeq(buffer, 2, k) = UnsignedLeb128(Len(buffer) - k)
    IN  SubSeq(buffer, h + 1, Len(buffer))

HasPayload(buffer) ==
    \E k \in 2 .. Len(buffer) : SubSeq(buffer, 2, k) = UnsignedLeb128(Len(buffer) - k)

\* The section kinds that hold a counted list of entries.
CountedCodecs == {"type_section", "function_section", "export_section", "code_section"}

EntryCount == Len(Entries(codec, value))

\* C1: a Custom, Type, Function, Export or Code section encoded with
\* elideIfEmpty = false and read back by Decoder.section() yields a section
\* equal to the original and leaves the decoder with remaining == 0.
C1_SectionRoundTrip ==
    (codec \in SectionCodecs /\ ~elideIfEmpty /\ pc \in {"decoded", "decodeThrew"}) =>
        /\ pc = "decoded"
        /\ replica = value
        /\ remaining(decoder) = 0

\* C2: the payload of an encoded Type, Function, Export or Code section starts
\* with the number of entries as a varuint32 (unsigned LEB128).
C2_CountWrittenUnsigned ==
    (codec \in CountedCodecs /\ pc = "encoded" /\ encoder.buffer # <<>>) =>
        /\ HasPayload(encoder.buffer)
        /\ IsPrefix(UnsignedLeb128(EntryCount), PayloadOf(encoder.buffer))

\* The value of the unsigned LEB128 number that starts at byte i of bytes;
\* every value of 2^24 or more is given as 2^24.
RECURSIVE UnsignedLeb128Value(_, _)
UnsignedLeb128Value(bytes, i) ==
    IF i > Len(bytes) THEN 0
    ELSE IF bytes[i] < 128 THEN bytes[i]
    ELSE LET rest == UnsignedLeb128Value(bytes, i + 1)
         IN  IF rest >= 131072 THEN 16777216
             ELSE (bytes[i] - 128) + (128 * rest)

\* C3: Decoder.section() reads the leading count of a Type, Function, Export
\* or Code payload as a varuint32: it returns as many entries as the unsigned
\* value of the count bytes (0x40 is 64 entries).
C3_CountReadUnsigned ==
    (codec \in CountedCodecs /\ pc \in {"decoded", "decodeThrew"}
        /\ encoder.buffer # <<>>) =>
        /\ pc = "decoded"
        /\ Len(Entries(codec, replica)) =
               UnsignedLeb128Value(PayloadOf(encoder.buffer), 1)

\* C8: with elideIfEmpty = true a section encode appends nothing and returns
\* false exactly for a non-custom section without entries; a section with
\* entries is written in full and returns true; a custom section is always
\* written and returns true.
C8_ElideIfEmpty ==
    (codec \in SectionCodecs /\ elideIfEmpty /\ pc = "encoded") =>
        IF codec \in CountedCodecs /\ EntryCount = 0
        THEN encoder.buffer = <<>> /\ hasEntries = FALSE
        ELSE /\ hasEntries = TRUE
             /\ encoder.buffer # <<>>
             /\ encoder.buffer = EncodeSection(NewEncoder, codec, value, FALSE).enc.buffer

C8_Witness ==
    /\ pc = "encoded"
    /\ elideIfEmpty
    /\ codec = "function_section"
    /\ EntryCount = 0
    /\ encoder.buffer = <<>>
    /\ hasEntries = FALSE

\* C9: an empty Type, Function, Export or Code section encoded with
\* elideIfEmpty = false appends exactly [id, 0x01, 0x00] and returns false,
\* and Decoder.section() reads those bytes as an empty section of that kind.
C9_EmptySectionBytes ==
    (codec \in CountedCodecs /\ EntryCount = 0 /\ ~elideIfEmpty /\ pc # "built") =>
        /\ encoder.buffer = <<value.id.lo, 1, 0>>
        /\ hasEntries = FALSE
        /\ pc # "encoded" =>
               /\ pc = "decoded"
               /\ replica.id = value.id
               /\ Entries(codec, replica) = <<>>
               /\ remaining(decoder) = 0

C9_Witness ==
    /\ pc = "decoded"
    /\ codec = "export_section"
    /\ EntryCount = 0
    /\ ~elideIfEmpty
    /\ encoder.buffer = <<7, 1, 0>>
    /\ replica = ExportSection

(***************************************************************************)
(* Properties of whole modules                                             *)
(***************************************************************************)

\* C10: reading a buffer made of the module preamble and any sequence of
\* section encodes with Decoder.module_preamble and then Decoder.section()
\* while bytes remain returns exactly the emitted sections, in order, and
\* ends with remaining == 0.
C10_ModuleRoundTrip ==
    /\ pc = "expect_section" =>
           /\ Len(replica) <= Len(value)
           /\ replica = SubSeq(value, 1, Len(replica))
    /\ pc \in {"done", "decodeThrew"} =>
           /\ pc = "done"
           /\ replica = value
           /\ remaining(decoder) = 0

(***************************************************************************)
(* Properties of Decoder.section() over arbitrary bytes                    *)
(***************************************************************************)

\* The number of bytes of the LEB128 number that starts at bytes[i].
RECURSIVE Leb128Size(_, _)
Leb128Size(bytes, i) ==
    IF i > Len(bytes) THEN 0
    ELSE IF bytes[i] < 128 THEN 1
    ELSE 1 + Leb128Size(bytes, i + 1)

\* Where the payload of the section held by bytes starts, and the payload_len
\* its header declares.
PayloadStart(bytes) == Leb128Size(bytes, 1) + Leb128Size(bytes, 1 + Leb128Size(bytes, 1))

DeclaredLen(bytes) == UnsignedLeb128Value(bytes, 1 + Leb128Size(bytes, 1))

\* C11: Decoder.section() never returns a section after reading more or fewer
\* payload bytes than the payload_len of the section declares.
C11_PayloadLenEnforced ==
    (codec \in SectionCodecs /\ pc = "decoded") =>
        decoder.offset - PayloadStart(decoder.buffer) = DeclaredLen(decoder.buffer)

(***************************************************************************)
(* Properties of the reads of a Decoder over arbitrary bytes               *)
(***************************************************************************)

\* The number of bytes the last read consumed.
Consumed == decoder.offset - value.offset

\* C12: Decoder.varuint32 reads at most 5 bytes and returns no number whose
\* encoding does not fit in 32 bits: a fifth byte that continues, or that
\* holds payload bits above bit 31, makes it fail.
C12_Varuint32FitsIn32Bits ==
    (codec = "varuint32" /\ pc = "read") =>
        /\ Consumed <= 5
        /\ Consumed = 5 => decoder.buffer[decoder.offset] < 16

\* C19, as stated: after any sequence of reads the offset is within the
\* buffer, it never decreases, and every read attempted with remaining == 0
\* fails without returning a value.
C19_EveryReadAtEndFails ==
    [][/\ 0 <= decoder'.offset
       /\ decoder'.offset <= Len(decoder'.buffer)
       /\ remaining(decoder') = Len(decoder'.buffer) - decoder'.offset
       /\ decoder'.offset >= decoder.offset
       /\ remaining(decoder) = 0 => (pc' = "readThrew" /\ replica' = Undefined)]_vars

\* C19, amended: as above, but the read that fails at remaining == 0 is every
\* read that needs a byte; bytes(0) returns the empty array there and leaves
\* the offset where it was.
C19_CursorWithinBuffer ==
    [][/\ 0 <= decoder'.offset
       /\ decoder'.offset <= Len(decoder'.buffer)
       /\ remaining(decoder') = Len(decoder'.buffer) - decoder'.offset
       /\ decoder'.offset >= decoder.offset
       /\ remaining(decoder) = 0 =>
              /\ decoder'.offset = decoder.offset
              /\ IF codec' = "bytes" /\ value'.count = N(0)
                 THEN pc' = "read" /\ replica' = <<>>
                 ELSE pc' = "readThrew" /\ replica' = Undefined]_vars

\* bytes(0) at the end of a buffer that an earlier read consumed.
C19_Witness ==
    /\ pc = "read"
    /\ codec = "bytes"
    /\ value.count = N(0)
    /\ Len(decoder.buffer) > 0
    /\ value.offset = Len(decoder.buffer)
    /\ remaining(decoder) = 0
    /\ replica = <<>>

(***************************************************************************)
(* Properties of the preamble                                              *)
(***************************************************************************)

\* The four bytes of a uint32 below 2^31, least significant first.
LittleEndian(n) ==
    <<n % 256, (n \div 256) % 256, (n \div 65536) % 256, (n \div 16777216) % 256>>

\* 00 61 73 6d followed by the MVP version.
WellFormedPreamble == <<0, 97, 115, 109>> \o LittleEndian(WasmVersion_Mvp)

\* C13: Encoder.module_preamble writes 8 bytes, 00 61 73 6d and the version
\* least significant byte first; Decoder.module_preamble succeeds exactly on
\* the buffers that begin with 00 61 73 6d and the supported version, returns
\* a Preamble of that version and leaves the cursor at offset 8; it fails on
\* another magic number, on an unsupported version and on fewer than 8 bytes.
C13_PreambleDecode ==
    /\ pc = "encoded" =>
           /\ Len(encoder.buffer) = 8
           /\ SubSeq(encoder.buffer, 1, 4) = <<0, 97, 115, 109>>
           /\ SubSeq(encoder.buffer, 5, 8) = LittleEndian(value.lo)
    /\ pc \in {"decoded", "decodeThrew"} =>
           /\ (pc = "decoded") <=> IsPrefix(WellFormedPreamble, decoder.buffer)
           /\ pc = "decoded" =>
                  /\ replica = Preamble(N(WasmVersion_Mvp))
                  /\ decoder.offset = 8
           /\ pc = "decodeThrew" => replica = Undefined

\* A well-formed preamble followed by one more byte, read back.
C13_Witness ==
    /\ pc = "decoded"
    /\ Len(decoder.buffer) = 9
    /\ IsPrefix(WellFormedPreamble, decoder.buffer)
    /\ decoder.offset = 8
    /\ replica.version = N(WasmVersion_Mvp)

\* C14: the Preamble constructor accepts the MVP version and fails for every
\* other version number, the historical 0x0d included.
C14_PreambleMvpOnly ==
    (codec \in PreambleClasses /\ pc \in {"constructed", "rejected"}) =>
        ((pc = "constructed") <=> (value = N(WasmVersion_Mvp)))

\* The section id at the start of bytes, a varuint7.
SectionId(bytes) == UnsignedLeb128Value(bytes, 1)

SupportedIds ==
    {section_code_Custom, section_code_Type, section_code_Function,
     section_code_Export, section_code_Code}

\* C15: Decoder.section() fails and returns no section for every section id
\* other than Custom, Type, Function, Export and Code: the ids 2, 4, 5, 6, 8,
\* 9 and 11 as unsupported, the ids above 11 at the cast to section_code.
C15_UnsupportedIdsFail ==
    (pc \in {"decoded", "decodeThrew"} /\ decoder.buffer # <<>>
        /\ SectionId(decoder.buffer) \notin SupportedIds) =>
        /\ pc = "decodeThrew"
        /\ replica = Undefined
        /\ decoder.offset = IF SectionId(decoder.buffer) > section_code_Data
                            THEN Leb128Size(decoder.buffer, 1)
                            ELSE PayloadStart(decoder.buffer)

\* A section of id Data (11), refused after its id and payload_len were read.
C15_Witness ==
    /\ pc = "decodeThrew"
    /\ decoder.buffer # <<>>
    /\ SectionId(decoder.buffer) = section_code_Data
    /\ decoder.offset = 2
    /\ replica = Undefined

(***************************************************************************)
(* Properties of the constructors                                          *)
(***************************************************************************)

\* code is not empty and its last byte is 0x0b.
EndsWithEnd(code) == code # <<>> /\ code[Len(code)] = 11

\* C16: the construction of a FunctionBody fails if and only if code is empty
\* or its last byte is not 0x0b, whatever the locals; every FunctionBody of a
\* CodeSection, built through the constructor or returned by the Decoder, has
\* a code that is not empty and ends in 0x0b.
C16_FunctionBodyEndsWithEnd ==
    /\ (codec = "code_section" /\ pc \in {"constructed", "rejected"}) =>
           ((pc = "rejected") <=> ~EndsWithEnd(value.code))
    /\ (codec = "code_section" /\ pc \in {"built", "encoded", "tampered"}) =>
           \A i \in 1 .. Len(value.bodies) : EndsWithEnd(value.bodies[i].code)
    /\ (pc = "decoded" /\ replica.id = N(section_code_Code)) =>
           \A i \in 1 .. Len(replica.bodies) : EndsWithEnd(replica.bodies[i].code)

\* new FunctionBody(locals, [ opcode.return ]) with locals, refused.
C16_Witness ==
    /\ pc = "rejected"
    /\ codec = "code_section"
    /\ value.code = <<opcode_return>>
    /\ Len(value.locals) = 2

\* The number is a uint32.
InUint32(n) == NumLe(N(0), n) /\ NumLe(n, Uint32Max)

TamperedAt ==
    CHOOSE i \in 1 .. Len(encoder.buffer) :
        /\ decoder.buffer[i] # encoder.buffer[i]
        /\ \A j \in 1 .. i - 1 : decoder.buffer[j] = encoder.buffer[j]

\* Where the return count of the only entry of an encoded type section is:
\* after the id, payload_len, the count of entries, the form, the count of
\* parameters and the parameters, one byte each.
ReturnCountAt == 6 + Len(value.entries[1].param_types)

\* C18: the construction of a FuncType fails for every list of two or more
\* return types and succeeds for none or one, whatever the parameters; the
\* Decoder fails on a type entry whose return count is not 0 or 1, and every
\* FuncType it returns has at most one return type.
C18_SingleReturnType ==
    /\ (codec = "type_section" /\ pc \in {"constructed", "rejected"}) =>
           ((pc = "rejected") <=> Len(value.return_types) >= 2)
    /\ (codec = "type_section" /\ pc \in {"decoded", "decodeThrew"}
           /\ Len(value.entries) = 1 /\ decoder.buffer # encoder.buffer
           /\ TamperedAt = ReturnCountAt
           /\ UnsignedLeb128Value(decoder.buffer, ReturnCountAt) \notin {0, 1}) =>
           pc = "decodeThrew"
    /\ (pc = "decoded" /\ replica.id = N(section_code_Type)) =>
           \A i \in 1 .. Len(replica.entries) : Len(replica.entries[i].return_types) <= 1

\* A type entry with two parameters whose return count was overwritten by 2.
C18_Witness ==
    /\ pc = "decodeThrew"
    /\ codec = "type_section"
    /\ Len(value.entries) = 1
    /\ Len(value.entries[1].param_types) = 2
    /\ decoder.buffer # encoder.buffer
    /\ TamperedAt = ReturnCountAt
    /\ decoder.buffer[ReturnCountAt] = 2

(***************************************************************************)
(* Properties of utf8                                                      *)
(***************************************************************************)

\* The string has a code unit of 0x80 or above.
HasHighUnit(str) == \E i \in 1 .. Len(str) : str[i] >= 128

\* C20: Encoder.utf8 fails exactly for the strings with a code unit of 0x80 or
\* above and then leaves the buffer as it was; for the other strings it
\* appends varuint32(length) and one byte per code unit, and Decoder.utf8 on
\* these bytes returns the string; Decoder.utf8 fails when a byte of the
\* string is 0x80 or above.
C20_Utf8Ascii ==
    /\ pc \in {"encoded", "threw"} =>
           /\ (pc = "threw") <=> HasHighUnit(value.str)
           /\ pc = "threw" => encoder.buffer = value.before
           /\ pc = "encoded" =>
                  encoder.buffer = value.before \o UnsignedLeb128(Len(value.str))
                                       \o value.str
    /\ (pc \in {"decoded", "decodeThrew"} /\ decoder.buffer = encoder.buffer) =>
           /\ pc = "decoded"
           /\ replica = value.str
           /\ decoder.offset = Len(decoder.buffer)
    /\ (pc \in {"decoded", "decodeThrew"} /\ decoder.buffer # encoder.buffer) =>
           /\ HasHighUnit(SubSeq(decoder.buffer, StringStart + 1, Len(decoder.buffer)))
           /\ pc = "decodeThrew"
           /\ replica = Undefined

\* utf8 of a string with U+00E9 on an encoder that already holds a string.
C20_Witness ==
    /\ pc = "threw"
    /\ value.str = <<97, 233>>
    /\ value.before # <<>>
    /\ encoder.buffer = value.before

(***************************************************************************)
(* Properties of the enumerations                                          *)
(***************************************************************************)

\* A LEB128 number starts at byte i of bytes and ends within bytes.
Terminated(bytes, i) == \E j \in i .. Len(bytes) : bytes[j] < 128

\* The value of the signed LEB128 number that starts at byte i of bytes; every
\* value of 2^24 or more is given as 2^24, every value of -2^24 or less as
\* -2^24.
RECURSIVE SignedLeb128Value(_, _)
SignedLeb128Value(bytes, i) ==
    IF i > Len(bytes) THEN 0
    ELSE IF bytes[i] < 64 THEN bytes[i]
    ELSE IF bytes[i] < 128 THEN bytes[i] - 128
    ELSE LET rest == SignedLeb128Value(bytes, i + 1)
         IN  IF rest >= 131072 THEN 16777216
             ELSE IF rest <= -131072 THEN -16777216
             ELSE (bytes[i] - 128) + (128 * rest)

\* The integer that the bytes at the cursor hold for the read of that name: a
\* signed LEB128 number for type and value_type, a byte for external_kind, an
\* unsigned LEB128 number for section_code.
HeldInteger(name, bytes, i) ==
    CASE name \in {"type", "value_type"} -> SignedLeb128Value(bytes, i)
      [] name = "external_kind" -> bytes[i]
      [] name = "section_code" -> UnsignedLeb128Value(bytes, i)

\* C21: the Decoder methods type, value_type, external_kind and section_code
\* return exactly when the integer held by the bytes at the cursor is a member
\* of the enumeration, and fail on every other integer.
C21_DecoderEnumsExact ==
    (codec \in {"type", "value_type", "external_kind", "section_code"}
        /\ pc \in {"read", "readThrew"}
        /\ value.offset < Len(decoder.buffer)
        /\ (codec # "external_kind" => Terminated(decoder.buffer, value.offset + 1))) =>
        ((pc = "read") <=>
            N(HeldInteger(codec, decoder.buffer, value.offset + 1)) \in EnumMembers(codec))

(***************************************************************************)
(* Properties of the LEB128 encoders                                       *)
(***************************************************************************)

\* 2^k and -2^k as numbers.
PowNum(k) == IF k < 16 THEN N(Pow2(k)) ELSE [hi |-> Pow2(k - 16), lo |-> 0]

NegPowNum(k) == IF k < 16 THEN N(-Pow2(k)) ELSE [hi |-> -Pow2(k - 16), lo |-> 0]

\* v < 2^(7n) for varuint32, -2^(7n-1) <= v < 2^(7n-1) for varint32.
FitsIn(name, v, n) ==
    IF name = "varuint32" THEN NumLt(v, PowNum(7 * n))
    ELSE NumLe(NegPowNum((7 * n) - 1), v) /\ NumLt(v, PowNum((7 * n) - 1))

\* C25: Encoder.varuint32 and Encoder.varint32 write between 1 and 5 bytes,
\* as few as hold the value, with the high bit set on every byte but the
\* last.
C25_MinimalLeb128 ==
    (codec \in {"varuint32", "varint32"} /\ pc \in {"decode", "read", "readThrew"}) =>
        /\ Len(encoder.buffer) \in 1 .. 5
        /\ \A i \in 1 .. Len(encoder.buffer) :
               (encoder.buffer[i] >= 128) <=> (i < Len(encoder.buffer))
        /\ FitsIn(codec, value, Len(encoder.buffer))
        /\ Len(encoder.buffer) > 1 => ~FitsIn(codec, value, Len(encoder.buffer) - 1)

\* varint32(-65), written in two bytes.
C25_Witness ==
    /\ codec = "varint32"
    /\ pc = "decode"
    /\ value = N(-65)
    /\ encoder.buffer = <<191, 127>>

(***************************************************************************)
(* Properties of a failing section encode                                  *)
(***************************************************************************)

\* C29: a section encode that fails because an entry of the section cannot be
\* encoded leaves the buffer of the encoder as it was before the call, and it
\* fails for every section with such an entry.
C29_FailedSectionFrame ==
    (codec \in SectionCodecs /\ pc \in {"sections", "threw"}) =>
        /\ (pc = "threw") <=> (value.section \in BadSections(codec))
        /\ pc = "threw" => encoder.buffer = value.before /\ ~hasEntries

\* An export section whose second entry has a name with the euro sign, refused
\* by an encoder that holds the preamble and a section.
C29_Witness ==
    /\ pc = "threw"
    /\ codec = "export_section"
    /\ Len(value.section.entries) = 2
    /\ Len(value.before) > 8
    /\ encoder.buffer = value.before

(***************************************************************************)
(* Properties of the front-end                                             *)
(***************************************************************************)

\* C28: WasmBlock.emit appends the end opcode to the code of the block once
\* and adds one FunctionBody to the code section, whose code is the code
\* written before followed by 0x0b; the block then has no code, and an emit
\* after that fails and leaves the bodies of the section as they were.
C28_BlockEmittedOnce ==
    (codec = "WasmBlock") =>
        /\ pc = "emitted" =>
               /\ ops = 1
               /\ value.block.code = Undefined
               /\ Len(value.section.bodies) = Len(value.before.bodies) + 1
               /\ SubSeq(value.section.bodies, 1, Len(value.before.bodies))
                      = value.before.bodies
               /\ value.section.bodies[Len(value.section.bodies)].code
                      = value.before.code \o <<opcode_end>>
        /\ pc = "refused" =>
               /\ ops > 1
               /\ value.before.code = Undefined
               /\ value.section.bodies = value.before.bodies
        /\ pc = "open" => value.section.bodies = value.before.bodies

C28_Witness ==
    /\ codec = "WasmBlock"
    /\ pc = "refused"
    /\ Len(value.section.bodies) = 2
    /\ value.section.bodies[2].code
           = <<opcode_f64_const, 24, 45, 68, 84, 251, 33, 9, 64, opcode_return, opcode_end>>

\* The positions, in order, of the exported declarations.
ExportedDecls(decls) ==
    SelectSeq([i \in 1 .. Len(decls) |-> i], LAMBDA i : decls[i].isExported)

\* C27: after WasmModule.emit over n declarations the type, function and
\* code sections hold n entries each; the i-th add on the type and on the
\* function section returned i (from 0); the i-th type is the signature of
\* the i-th declaration, the i-th function entry is type index i, the i-th
\* body is the code of the i-th declaration and the end opcode; the export
\* section has one entry per exported declaration, in order, with its name,
\* the kind Function and its function index.
C27_SectionsMirrorDecls ==
    (codec = "emit" /\ pc \in {"written", "failed"}) =>
        LET n == Len(value.decls)
            exported == ExportedDecls(value.decls)
        IN  /\ Len(value.m.types.entries) = n
            /\ Len(value.m.functions.types) = n
            /\ Len(value.m.code.bodies) = n
            /\ Len(value.m.indices) = n
            /\ \A i \in 1 .. n :
                   /\ value.m.indices[i] = [signatureIndex |-> i - 1, functionIndex |-> i - 1]
                   /\ value.m.types.entries[i] = value.decls[i].func_type
                   /\ value.m.functions.types[i] = N(i - 1)
                   /\ value.m.code.bodies[i].code
                          = value.decls[i].body.code.buffer \o <<opcode_end>>
            /\ Len(value.m.exports.entries) = Len(exported)
            /\ \A k \in 1 .. Len(exported) :
                   value.m.exports.entries[k]
                       = [name |-> value.decls[exported[k]].name,
                          kind |-> N(external_kind_Function),
                          index |-> N(exported[k] - 1)]

C27_Witness ==
    /\ codec = "emit"
    /\ pc = "written"
    /\ Len(value.decls) = 2
    /\ ~value.decls[1].isExported
    /\ value.m.exports.entries
           = <<ExportEntry(<<112, 105>>, N(external_kind_Function), N(1))>>
    /\ Len(value.m.code.bodies[2].code) = 11

\* The ids of the sections that start at byte i of bytes, each section being
\* an id byte, a varuint32 payload_len and payload_len bytes; -1 stands for
\* a section that runs past the end of bytes.
RECURSIVE SectionIds(_, _)
SectionIds(bytes, i) ==
    IF i > Len(bytes) THEN <<>>
    ELSE LET next == i + 1 + Leb128Size(bytes, i + 1) + UnsignedLeb128Value(bytes, i + 1)
         IN  IF i + 1 > Len(bytes) \/ next > Len(bytes) + 1 THEN <<-1>>
             ELSE <<bytes[i]>> \o SectionIds(bytes, next)

\* The ids WasmModule.emit of the declarations is to write.
ExpectedIds(decls) ==
    (IF Len(decls) > 0 THEN <<section_code_Type, section_code_Function>> ELSE <<>>)
        \o (IF ExportedDecls(decls) # <<>> THEN <<section_code_Export>> ELSE <<>>)
        \o (IF Len(decls) > 0 THEN <<section_code_Code>> ELSE <<>>)

\* C22: the bytes WasmModule.emit wrote are the 8 bytes of the preamble and
\* then, back to back up to the end of the buffer, the Type, the Function,
\* the Export and the Code section in this order, a section being present
\* iff it has an entry: nothing after the preamble for no declaration, no
\* Export section if no declaration is exported, and never a Custom section.
C22_SectionsAscending ==
    (codec = "emit" /\ pc = "written") =>
        /\ SubSeq(encoder.buffer, 1, 8) = <<0, 97, 115, 109, WasmVersion_Mvp, 0, 0, 0>>
        /\ SectionIds(encoder.buffer, 9) = ExpectedIds(value.decls)
        /\ value.decls = <<>> => Len(encoder.buffer) = 8
        /\ \A k \in 1 .. Len(SectionIds(encoder.buffer, 9)) - 1 :
               SectionIds(encoder.buffer, 9)[k] < SectionIds(encoder.buffer, 9)[k + 1]

C22_Witness ==
    /\ codec = "emit"
    /\ pc = "written"
    /\ Len(value.decls) = 2
    /\ ExportedDecls(value.decls) = <<2>>
    /\ SectionIds(encoder.buffer, 9) = <<1, 3, 7, 10>>

\* A module with functions and no export.
C22_NoExportReached ==
    /\ codec = "emit"
    /\ pc = "written"
    /\ SectionIds(encoder.buffer, 9) = <<1, 3, 10>>

\* An exported declaration whose name Encoder.utf8 refuses.
ExportsHighUnit(decls) ==
    \E i \in 1 .. Len(decls) : decls[i].isExported /\ HasHighUnit(decls[i].name)

C23_SkippedReached == codec = "emit" /\ pc = "skipped" /\ Len(value.decls) = 2

C23_FailedReached == codec = "emit" /\ pc = "failed" /\ value.diagnostics = 0

(***************************************************************************)
(* Properties of the disassembler                                          *)
(***************************************************************************)

\* export function pi() { return 3.141592653589793; } as WasmModule.emit
\* writes it.
PiModule ==
    <<0, 97, 115, 109, 1, 0, 0, 0, 1, 5, 1, 96, 0, 1, 124, 3, 2, 1, 0,
      7, 6, 1, 2, 112, 105, 0, 0,
      10, 14, 1, 12, 0, opcode_f64_const, 24, 45, 68, 84, 251, 33, 9, 64,
      opcode_return, opcode_end>>

\* The digits of 0x400921fb54442d18.
PiHex == <<4, 0, 0, 9, 2, 1, 15, 11, 5, 4, 4, 4, 2, 13, 1, 8>>

\* C24: getText returns on the module whose code body is f64.const with the
\* 8 bytes of pi, return, end, and lists these three instructions in this
\* order, the immediate of f64.const as the 16 hex digits of the constant.
C24_F64ConstListed ==
    (codec = "getText" /\ decoder.buffer = PiModule /\ pc \in {"returned", "failed"}) =>
        /\ pc = "returned"
        /\ Len(value.lines) = 3
        /\ value.lines[1].op = opcode_f64_const
        /\ value.lines[1].immediates = <<[hex |-> PiHex]>>
        /\ value.lines[2] = [op |-> opcode_return, immediates |-> <<>>]
        /\ value.lines[3] = [op |-> opcode_end, immediates |-> <<>>]

\* C26: the decoded mark never exceeds the offset of the decoder; the ranges
\* decoded() printed start at 0, each starts where the one before ended,
\* and the last ends at the mark; the first is the preamble, and the range
\* printed for a section runs from the offset before Decoder.section() to
\* the offset after it; when getText returns the mark is the length of the
\* module.
C26_DecodedRanges ==
    (codec = "getText") =>
        /\ value.decodedMark <= decoder.offset
        /\ decoder.offset <= Len(decoder.buffer)
        /\ \A k \in 1 .. Len(value.ranges) :
               /\ value.ranges[k].from <= value.ranges[k].to
               /\ value.ranges[k].from = IF k = 1 THEN 0 ELSE value.ranges[k - 1].to
        /\ value.ranges # <<>> =>
               /\ value.ranges[Len(value.ranges)].to = value.decodedMark
               /\ value.ranges[1] = [from |-> 0, to |-> 8]
        /\ (pc \in {"sections", "returned"} /\ ops > 0
                /\ decoder.offset > replica.offset) =>
               value.ranges[Len(value.ranges)]
                   = [from |-> replica.offset, to |-> decoder.offset]
        /\ pc = "returned" =>
               /\ value.decodedMark = Len(decoder.buffer)
               /\ Len(value.ranges) = ops + 2 - (IF Len(decoder.buffer) = 8 THEN 1 ELSE 0)

C26_Witness ==
    /\ codec = "getText"
    /\ pc = "returned"
    /\ Len(value.ranges) = 7
    /\ value.decodedMark = Len(decoder.buffer)
    /\ Len(value.lines) = 2

\* C30: every call of section() in the loop of getText fails, or finds no
\* byte remaining and ends the loop, or leaves the decoder at least two
\* bytes further; and the loop ends, getText returning or failing.
C30_SectionLoopTerminates ==
    /\ [][(codec = "getText" /\ pc = "sections") =>
              \/ pc' = "failed"
              \/ (remaining(decoder) = 0 /\ pc' = "returned")
              \/ decoder'.offset >= decoder.offset + 2]_vars
    /\ (codec = "getText") ~> (pc \in {"returned", "failed"})

C30_Witness ==
    /\ codec = "getText"
    /\ pc = "returned"
    /\ ops = 5
    /\ decoder.offset = Len(decoder.buffer)


====
